---- MODULE Spec2Model ----
(***************************************************************************)
(* Racer: the mutation-event emitter of src/src/Model/events.js and the    *)
(* document reference lifecycle of src/src/Model/subscriptions.ts.         *)
(*                                                                         *)
(* The program is single threaded.  A synchronous call chain is a stack of *)
(* frames (an _emitMutation activation, a listener callback, a completion  *)
(* callback); timers and sync-object callbacks run only from an empty      *)
(* stack.  Listener and completion callbacks are user code: what they do   *)
(* (return, throw, emit again) is chosen nondeterministically.             *)
(***************************************************************************)
EXTENDS Integers, Sequences, FiniteSets, TLC

VARIABLES
    emittingMutation,     \* root._emittingMutation
    mutationEventQueue,   \* root._mutationEventQueue (<<>> stands for null)
    mutationListeners,    \* root._mutationListeners: tree type -> listeners in registration order
    stack,                \* the synchronous call chain, innermost frame last
    exc,                  \* the exception being propagated, "none" when there is none
    created,              \* number of event objects created so far
    recording,            \* whether the history below is being recorded
    events,               \* history: every event object created, by identity
    log,                  \* history: every _callMutationListeners call and every listener invocation
    enqueued,             \* history: event identities in the order they were pushed on the queue
    thrown,               \* history: the exceptions raised so far
    returned,             \* history: the events whose _emitMutation call returned normally
    passes,               \* history: drain passes that dispatched events, per outermost emit
    options,              \* root.fetchOnly and root.unloadDelay, and what they were computed from
    errorListeners,       \* whether a listener is registered for model.on('error')
    fetchedDocs,          \* root._fetchedDocs: the count of the document
    subscribedDocs,       \* root._subscribedDocs: the count of the document
    collections,          \* root.collections: the ids of the documents resident in the collection
    shareDoc,             \* doc.shareDoc: subscribed, the calls in flight, the whenNothingPending callbacks
    timers,               \* the setTimeout callbacks armed and not yet fired, in firing order
    queries,              \* root._queries: the one query of the collection
    ops,                  \* number of operations the application has started
    calls,                \* history: the operations the application has started, in order
    did,                  \* history: what the last handler of the document lifecycle did
    passedObjects,        \* the Passed objects created so far, by identity: their own properties
    childModels,          \* the models created so far, the root first: their _pass and how pass() made them
    added,                \* the listeners on() has added to the trees, in order
    eventContextListeners, \* root._eventContextListeners: the listeners added under each eventContext id
    removed,              \* history: what each call of removeContextListeners removed, and when
    cbHist                \* history: what completion callbacks did and what reached 'error' listeners

(* The state of the document lifecycle *)
docVars == <<fetchedDocs, subscribedDocs, collections, shareDoc, timers, queries, ops,
             calls, did>>

(* The scopes made by pass() and the listeners added by on() *)
scopeVars == <<passedObjects, childModels, added, eventContextListeners, removed>>

vars == <<emittingMutation, mutationEventQueue, mutationListeners, stack, exc,
          created, recording, events, log, enqueued, thrown, returned, passes,
          options, errorListeners, docVars, cbHist, scopeVars>>

(* What no step of the emitter changes *)
kept == <<recording, options, errorListeners, docVars, cbHist, passedObjects,
          childModels, added, removed>>

fixed == <<mutationListeners, eventContextListeners, kept>>

----------------------------------------------------------------------------
(* Bounds of the model *)

MaxEvents == 3

MaxOps == 4
MaxScopes == 3
MaxListeners == 2

MaxRemovals == 1

MaxContextEvents == 2

(* The hard iteration cap of the drain loop *)
CycleLimit == 1000

----------------------------------------------------------------------------
(* Event taxonomy *)

EventTypes == {"change", "unload"}

(* The immediate phase dispatching to the listeners of the event's own type *)
ImmediateType_OwnType(type) == type

ImmediateType(type) ==
    CASE type = "change" -> "changeImmediate"
      [] type = "unload" -> "unloadImmediate"

(* root._mutationListeners, lines 37-45: one tree per mutation event name and
   per immediate name, and the tree of 'all' *)
TreeTypes == {"all", "change", "changeImmediate", "unload", "unloadImmediate"}

(* A segment of a path or of a pattern is the sequence of its characters *)
Wildcard == <<"*">>

TailWildcard == <<"*", "*">>

(* The mutations of the model: a change at a document or below it, and the
   unload of a document (subscriptions.ts line 310: the path is [collection, id]) *)
Mutations ==
    {[type |-> "change", segments |-> <<(<<"c">>), (<<"1">>)>>],
     [type |-> "change", segments |-> <<(<<"c">>), (<<"1">>), (<<"x">>)>>],
     [type |-> "unload", segments |-> <<(<<"c">>), (<<"1">>)>>]}

(* The listeners an application may have registered: tree type and pattern *)
ListenerDefs ==
    <<[type |-> "changeImmediate", patternSegments |-> <<TailWildcard>>],
      [type |-> "change",          patternSegments |-> <<(<<"c">>), (<<"1">>)>>],
      [type |-> "change",          patternSegments |-> <<(<<"c">>), TailWildcard>>],
      [type |-> "all",             patternSegments |-> <<TailWildcard>>],
      [type |-> "unload",          patternSegments |-> <<(<<"c">>), Wildcard>>]>>

ListenerIds == DOMAIN ListenerDefs

----------------------------------------------------------------------------
(* Mutation listeners: events.js lines 355-414 *)

(* segments.join('.') *)
RECURSIVE Join(_)
Join(segments) ==
    IF segments = <<>> THEN <<>>
    ELSE IF Len(segments) = 1 THEN segments[1]
    ELSE segments[1] \o <<".">> \o Join(Tail(segments))

(* segments.slice(index), index counting from 1 *)
Slice(segments, index) == SubSeq(segments, index, Len(segments))

(* The indices i of the loop of lines 385-401 whose segment is '*' *)
CaptureIndicies(patternSegments) ==
    SelectSeq([i \in DOMAIN patternSegments |-> i],
              LAMBDA i : patternSegments[i] = Wildcard)

(* The last index of the loop of lines 385-401 whose segment is '**', 0 when
   the variable is left undefined *)
RemainingIndex_First(patternSegments) ==
    IF \E i \in DOMAIN patternSegments : patternSegments[i] = TailWildcard
    THEN 1
    ELSE 0

RemainingIndex(patternSegments) ==
    IF \E i \in DOMAIN patternSegments : patternSegments[i] = TailWildcard
    THEN CHOOSE i \in DOMAIN patternSegments :
            /\ patternSegments[i] = TailWildcard
            /\ \A j \in DOMAIN patternSegments : patternSegments[j] = TailWildcard => j <= i
    ELSE 0

(* createCaptures, lines 355-368; an index past the end of segments reads
   undefined *)
createCaptures(captureIndicies, remainingIndex, segments) ==
    [i \in DOMAIN captureIndicies |->
        IF captureIndicies[i] \in DOMAIN segments
        THEN segments[captureIndicies[i]]
        ELSE <<"undefined">>]
    \o (IF remainingIndex # 0
        THEN <<Join(Slice(segments, remainingIndex))>>
        ELSE <<>>)

(* The function fn that createMutationListener makes for a pattern, lines
   379-412: which of its three closures it is *)
ListenerFn(patternSegments) ==
    IF Len(patternSegments) = 1 /\ patternSegments[1] = TailWildcard
    THEN "join"
    ELSE IF \/ CaptureIndicies(patternSegments) # <<>>
            \/ RemainingIndex(patternSegments) # 0
    THEN "createCaptures"
    ELSE "none"

(* The captures that the function fn of a listener passes to its callback; the
   listener of raw emission (lines 346-349) is the callback itself and passes
   none *)
Captures(listener, segments) ==
    CASE listener.fn = "join" -> <<Join(segments)>>
      [] listener.fn = "createCaptures" ->
            createCaptures(CaptureIndicies(listener.patternSegments),
                           RemainingIndex(listener.patternSegments), segments)
      [] OTHER -> <<>>

(* The listener objects: those of ListenerDefs, registered with a pattern, no
   event context and on(), and after them those that on() and once() added *)
Listener(l) ==
    IF l \in ListenerIds
    THEN [type |-> ListenerDefs[l].type,
          patternSegments |-> ListenerDefs[l].patternSegments,
          eventContext |-> 0,
          fn |-> ListenerFn(ListenerDefs[l].patternSegments),
          once |-> FALSE,
          asked |-> Join(ListenerDefs[l].patternSegments)]
    ELSE added[l - Len(ListenerDefs)]

----------------------------------------------------------------------------
(* EventListenerTree *)

AtNode(ls, pattern) ==
    SelectSeq(ls, LAMBDA l : Listener(l).patternSegments = pattern)

RECURSIVE Collect(_, _, _)
Collect(ls, prefix, rest) ==
    IF rest = <<>>
    THEN AtNode(ls, prefix \o <<TailWildcard>>) \o AtNode(ls, prefix)
    ELSE AtNode(ls, prefix \o <<TailWildcard>>)
         \o Collect(ls, prefix \o <<Head(rest)>>, Tail(rest))
         \o Collect(ls, prefix \o <<Wildcard>>, Tail(rest))

getWildcardListeners(type, segments) ==
    Collect(mutationListeners[type], <<>>, segments)

(* listener.node.removeOwnListener(listener) *)
RemoveOwnListener(trees, listener) ==
    [t \in DOMAIN trees |-> SelectSeq(trees[t], LAMBDA l : l # listener)]

(* The loop of lines 254-256 left after its first iteration *)
RemoveOwnListeners_LastOnly(trees, listeners) ==
    IF listeners = <<>> THEN trees
    ELSE RemoveOwnListener(trees, listeners[Len(listeners)])

RECURSIVE RemoveOwnListeners(_, _)
RemoveOwnListeners(trees, listeners) ==
    IF listeners = <<>> THEN trees
    ELSE RemoveOwnListeners(RemoveOwnListener(trees, listeners[Len(listeners)]),
                            SubSeq(listeners, 1, Len(listeners) - 1))

(* map[id] = listeners and delete map[id], for the index by eventContext *)
Put(map, id, listeners) ==
    [k \in DOMAIN map \cup {id} |-> IF k = id THEN listeners ELSE map[k]]

Delete(map, id) == [k \in DOMAIN map \ {id} |-> map[k]]

(* _removeMutationListener(listener) on a model with this eventContext, lines
   259-274: the trees and the index after it *)
RemoveMutationListener(trees, map, eventContext, listener) ==
    [trees |-> RemoveOwnListener(trees, listener),
     map |-> IF eventContext = 0 \/ eventContext \notin DOMAIN map
             THEN map
             ELSE Put(map, eventContext,
                      SelectSeq(map[eventContext], LAMBDA l : l # listener))]

----------------------------------------------------------------------------
(* Frames of the call chain *)

(* An event object: its identity and its prototype's type *)
NoEvent == [id |-> 0, type |-> ""]

NoFrame ==
    [kind |-> "none", silent |-> FALSE, segments |-> <<>>, event |-> NoEvent, pc |-> "",
     type |-> "", listeners |-> <<>>, i |-> 0, limit |-> 0, queue |-> <<>>, qi |-> 0,
     listener |-> 0, step |-> 0, call |-> 0, cb |-> "", err |-> "", count |-> -1,
     captures |-> <<>>]

EmitFrame(silent, segments, event) ==
    [NoFrame EXCEPT !.kind = "emit", !.silent = silent, !.segments = segments,
                    !.event = event, !.call = event.id, !.pc = "start"]

ListenerFrame(listener, type, segments, event) ==
    [NoFrame EXCEPT !.kind = "listener", !.listener = listener, !.type = type,
                    !.segments = segments, !.event = event,
                    !.captures = Captures(Listener(listener), segments)]

(* An activation of the function wrapCallback(cb) returned, called with err and
   count: cb is "none" when no callback was supplied, err is "" when there is no
   error, count is -1 when no second argument is passed *)
CallbackFrame(cb, err, count) ==
    [NoFrame EXCEPT !.kind = "callback", !.cb = cb, !.err = err, !.count = count]

ErrorListenerFrame == [NoFrame EXCEPT !.kind = "errorListener"]

Top == stack[Len(stack)]
Pop == SubSeq(stack, 1, Len(stack) - 1)
ReplaceTop(f) == [stack EXCEPT ![Len(stack)] = f]

Running(kind) == stack # <<>> /\ exc = "none" /\ Top.kind = kind
Idle == stack = <<>> /\ exc = "none"


----------------------------------------------------------------------------
(* Scope derivation.  A scope is written as the arguments of the silent(value)
   calls that derived it from the root model, value being "undefined", "true"
   or "false"; <<>> is the root model itself *)

SilentArgs == {"undefined", "true", "false"}

RootScope == <<>>

SilentScopes == {<<"undefined">>, <<"true">>, <<"false">>, <<"true", "false">>}

(* line 236 *)
(* silent(value) taking a missing argument for false *)
SilentValue_Truthy(value) == value = "true"

SilentValue(value) == IF value = "undefined" THEN TRUE ELSE value = "true"

(* line 49 for the root model, lines 235-236 for a scope derived from parent *)
RECURSIVE ScopeSilent(_)
ScopeSilent(sc) ==
    IF sc = <<>> THEN FALSE
    ELSE LET parent == ScopeSilent(SubSeq(sc, 1, Len(sc) - 1))
         IN  SilentValue(sc[Len(sc)])

----------------------------------------------------------------------------
(* _emitMutation and _callMutationListeners *)

(* event.type, lines 434, 453, 472 *)
EventType(event) == event.type

Record(history, entry) == IF recording THEN Append(history, entry) ELSE history

RecordIn(history, entry) == IF recording THEN history \cup {entry} ELSE history

(* A call of _emitMutation(segments, event) through the current scope: a new
   event object and a new activation *)
EmitCall(caller, sc, segments, type, parent, parentType) ==
    /\ created' = created + 1
    /\ events' = Record(events, [type |-> type, segments |-> segments,
                                 via |-> sc, parent |-> parent,
                                 parentType |-> parentType,
                                 inFlight |-> emittingMutation])
    /\ stack' = Append(caller, EmitFrame(ScopeSilent(sc), segments,
                                         [id |-> created + 1, type |-> type]))

IsSilent(f) == f.silent

(* _callMutationListeners(type, segments, event): the point-in-time list *)
CallMutationListeners(f, type, pc) ==
    /\ stack' = ReplaceTop([f EXCEPT !.pc = pc, !.type = type, !.i = 1,
                                     !.listeners = getWildcardListeners(type, f.segments)])
    /\ log' = Record(log, [kind |-> "dispatch", event |-> f.event.id, type |-> type,
                           listener |-> 0])

DispatchPcs == {"immediate", "own", "all", "drainOwn", "drainAll"}

ListDone(pc) == Running("emit") /\ Top.pc = pc /\ Top.i > Len(Top.listeners)

(* The pending queue keeping only the latest event *)
Enqueue_Replace(queue, segments, event) ==
    <<[segments |-> segments, event |-> event]>>

(* The pending queue taking a new event at its front *)
Enqueue_Front(queue, segments, event) ==
    <<[segments |-> segments, event |-> event]>> \o queue

Enqueue(queue, segments, event) ==
    IF queue # <<>>
    THEN Append(queue, [segments |-> segments, event |-> event])
    ELSE <<[segments |-> segments, event |-> event]>>

DecLimit(limit) == limit - 1

(* The budget test admitting one more pass *)
LimitExceeded_Late(limit) == limit < -1

LimitExceeded(limit) == limit < 0

(* The own-type dispatch going to the listeners of 'all' *)
OwnType_All(e) == "all"

OwnType(e) == EventType(e)

AllType == "all"

(* The in-flight flag never raised *)
RaisedFlag_Never == FALSE

(* line 99 *)
RaisedFlag == TRUE

(* The in-flight flag cleared when an exception leaves _emitMutation, as a
   finally block would *)
FlagLeft_Cleared(flag) == FALSE

(* The in-flight flag after an exception has left _emitMutation: lines 88-123
   have no try, so line 122 is not reached *)
FlagLeft(flag) == flag

(* The in-flight flag left set at the end of the drain *)
ClearedFlag_Stuck == TRUE

(* line 122 *)
ClearedFlag == FALSE

(* The dispatch loop catching what a listener throws and going on *)
CallFailed_Swallow(f) == [stack |-> stack, exc |-> "none"]

(* What a throwing listener does to the activation that called it: the loop of
   _callMutationListeners has no try/catch *)
CallFailed(f) == [stack |-> Pop, exc |-> exc]

(* line 89 and line 91 *)
EmitStart ==
    /\ Running("emit") /\ Top.pc = "start"
    /\ IF IsSilent(Top)
       THEN /\ stack' = Pop
            /\ returned' = RecordIn(returned, Top.call)
            /\ UNCHANGED log
       ELSE /\ CallMutationListeners(Top, ImmediateType(EventType(Top.event)), "immediate")
            /\ UNCHANGED returned
    /\ UNCHANGED <<emittingMutation, mutationEventQueue, exc,
                   events, enqueued, thrown, passes>>
    /\ UNCHANGED <<created, fixed>>

(* lines 128-131: one iteration of the loop, invoking listeners[i].fn, which
   for a listener of once() is onceWrapper, lines 164-167: it removes the
   listener and then calls the function on() would have registered *)
CallListener ==
    /\ Running("emit") /\ Top.pc \in DispatchPcs /\ Top.i <= Len(Top.listeners)
    /\ LET listener == Top.listeners[Top.i]
           after == RemoveMutationListener(mutationListeners, eventContextListeners,
                                           Listener(listener).eventContext, listener)
       IN  /\ stack' = Append(ReplaceTop([Top EXCEPT !.i = @ + 1]),
                              ListenerFrame(listener, Top.type, Top.segments, Top.event))
           /\ log' = Record(log, [kind |-> "call", event |-> Top.event.id,
                                  type |-> Top.type, listener |-> listener])
           /\ IF Listener(listener).once
              THEN /\ mutationListeners' = after.trees
                   /\ eventContextListeners' = after.map
              ELSE UNCHANGED <<mutationListeners, eventContextListeners>>
    /\ UNCHANGED <<emittingMutation, mutationEventQueue, exc,
                   events, enqueued, thrown, returned, passes>>
    /\ UNCHANGED <<created, kept>>

(* lines 92-101 *)
ImmediateDone ==
    /\ ListDone("immediate")
    /\ IF emittingMutation
       THEN /\ mutationEventQueue' = Enqueue(mutationEventQueue, Top.segments, Top.event)
            /\ enqueued' = Record(enqueued, Top.event.id)
            /\ stack' = Pop
            /\ returned' = RecordIn(returned, Top.call)
            /\ UNCHANGED <<emittingMutation, log, passes>>
       ELSE /\ emittingMutation' = RaisedFlag
            /\ passes' = 0
            /\ CallMutationListeners(Top, OwnType(Top.event), "own")
            /\ UNCHANGED <<mutationEventQueue, enqueued, returned>>
    /\ UNCHANGED <<exc, events, thrown, created>>
    /\ UNCHANGED fixed

(* line 102 *)
OwnDone ==
    /\ ListDone("own")
    /\ CallMutationListeners(Top, AllType, "all")
    /\ UNCHANGED <<emittingMutation, mutationEventQueue, exc,
                   events, enqueued, thrown, returned, passes>>
    /\ UNCHANGED <<created, fixed>>

(* line 103 *)
AllDone ==
    /\ ListDone("all")
    /\ stack' = ReplaceTop([Top EXCEPT !.pc = "while", !.limit = CycleLimit])
    /\ UNCHANGED <<emittingMutation, mutationEventQueue, exc,
                   events, log, enqueued, thrown, returned, passes>>
    /\ UNCHANGED <<created, fixed>>

(* lines 104-114 and 122 *)
DrainWhile ==
    /\ Running("emit") /\ Top.pc = "while"
    /\ IF mutationEventQueue = <<>>
       THEN /\ emittingMutation' = ClearedFlag
            /\ stack' = Pop
            /\ returned' = RecordIn(returned, Top.call)
            /\ UNCHANGED <<mutationEventQueue, exc, thrown, passes>>
       ELSE IF LimitExceeded(DecLimit(Top.limit))
       THEN /\ exc' = "cycle"
            /\ thrown' = Append(thrown, [what |-> "cycle", event |-> Top.call,
                                         type |-> "", at |-> Len(log)])
            /\ stack' = Pop
            /\ emittingMutation' = FlagLeft(emittingMutation)
            /\ UNCHANGED <<mutationEventQueue, returned, passes>>
       ELSE /\ stack' = ReplaceTop([Top EXCEPT !.pc = "for", !.limit = DecLimit(@),
                                               !.queue = mutationEventQueue, !.qi = 1])
            /\ mutationEventQueue' = <<>>
            /\ passes' = passes + 1
            /\ UNCHANGED <<emittingMutation, exc, thrown, returned>>
    /\ UNCHANGED <<events, log, enqueued, created>>
    /\ UNCHANGED fixed

(* lines 115-118 *)
DrainFor ==
    /\ Running("emit") /\ Top.pc = "for"
    /\ IF Top.qi > Len(Top.queue)
       THEN /\ stack' = ReplaceTop([Top EXCEPT !.pc = "while"])
            /\ UNCHANGED log
       ELSE LET entry == Top.queue[Top.qi]
                f == [Top EXCEPT !.segments = entry.segments, !.event = entry.event,
                                 !.qi = @ + 1]
            IN  CallMutationListeners(f, OwnType(entry.event), "drainOwn")
    /\ UNCHANGED <<emittingMutation, mutationEventQueue, exc,
                   events, enqueued, thrown, returned, passes>>
    /\ UNCHANGED <<created, fixed>>

(* line 119 *)
DrainOwnDone ==
    /\ ListDone("drainOwn")
    /\ CallMutationListeners(Top, AllType, "drainAll")
    /\ UNCHANGED <<emittingMutation, mutationEventQueue, exc,
                   events, enqueued, thrown, returned, passes>>
    /\ UNCHANGED <<created, fixed>>

(* line 120: the end of one iteration of the for loop *)
DrainAllDone ==
    /\ ListDone("drainAll")
    /\ stack' = ReplaceTop([Top EXCEPT !.pc = "for"])
    /\ UNCHANGED <<emittingMutation, mutationEventQueue, exc,
                   events, log, enqueued, thrown, returned, passes>>
    /\ UNCHANGED <<created, fixed>>

(* An exception passes through an activation of _emitMutation *)
EmitUnwind ==
    /\ stack # <<>> /\ exc # "none" /\ Top.kind = "emit"
    /\ stack' = CallFailed(Top).stack
    /\ exc' = CallFailed(Top).exc
    /\ emittingMutation' = FlagLeft(emittingMutation)
    /\ UNCHANGED <<mutationEventQueue,
                   events, log, enqueued, thrown, returned, passes>>
    /\ UNCHANGED <<created, fixed>>

----------------------------------------------------------------------------
(* User code: the application and its listener callbacks *)

(* A mutation made by the application emits its event *)
AppEmit(sc, segments, type) ==
    /\ Idle
    /\ created < MaxEvents
    /\ EmitCall(stack, sc, segments, type, 0, "")
    /\ UNCHANGED <<emittingMutation, mutationEventQueue, exc,
                   log, enqueued, thrown, returned, passes>>
    /\ UNCHANGED fixed

(* A listener callback mutates the model *)
ListenerEmit(sc, segments, type) ==
    /\ Running("listener")
    /\ created < MaxEvents
    /\ EmitCall(stack, sc, segments, type, Top.event.id, Top.type)
    /\ UNCHANGED <<emittingMutation, mutationEventQueue, exc,
                   log, enqueued, thrown, returned, passes>>
    /\ UNCHANGED fixed

ListenerReturn ==
    /\ Running("listener")
    /\ stack' = Pop
    /\ UNCHANGED <<emittingMutation, mutationEventQueue, exc,
                   events, log, enqueued, thrown, returned, passes>>
    /\ UNCHANGED <<created, fixed>>

ListenerThrow ==
    /\ Running("listener")
    /\ exc' = "listener"
    /\ thrown' = Append(thrown, [what |-> "listener", event |-> Top.event.id,
                                 type |-> Top.type, at |-> Len(log)])
    /\ stack' = Pop
    /\ UNCHANGED <<emittingMutation, mutationEventQueue,
                   events, log, enqueued, returned, passes>>
    /\ UNCHANGED <<created, fixed>>

(* An emit made by a listener threw: the listener lets the exception pass *)
ListenerUnwind ==
    /\ stack # <<>> /\ exc # "none" /\ Top.kind = "listener"
    /\ stack' = Pop
    /\ UNCHANGED <<emittingMutation, mutationEventQueue, exc,
                   events, log, enqueued, thrown, returned, passes>>
    /\ UNCHANGED <<created, fixed>>

(* The exception reaches the application's caller *)
Uncaught ==
    /\ stack = <<>> /\ exc # "none"
    /\ exc' = "none"
    /\ UNCHANGED <<emittingMutation, mutationEventQueue, stack,
                   events, log, enqueued, thrown, returned, passes>>
    /\ UNCHANGED <<created, fixed>>

----------------------------------------------------------------------------
(* Document lifecycle: the data of subscriptions.ts *)

(* The document the application loads, and its path *)
DocId == "1"

DocPath == <<(<<"c">>), (<<DocId>>)>>

(* subscriptions.ts line 108: the delay when none applies *)
DefaultUnloadDelay == 1000

(* subscriptions.ts line 108: options.unloadDelay || (util.isServer) ? 0 : 1000,
   in which || binds tighter than ?: ; an option of 0 is an option not supplied *)
UnloadDelay(option, isServer) ==
    IF option # 0 \/ isServer THEN 0 ELSE DefaultUnloadDelay

(* subscriptions.ts lines 107-108 *)
ModelOptions(fetchOnly, unloadDelay, isServer) ==
    [fetchOnly |-> fetchOnly, option |-> unloadDelay, isServer |-> isServer,
     unloadDelay |-> UnloadDelay(unloadDelay, isServer)]

(* CollectionCounter, for the one document *)
Increment(count) == count + 1

Decrement_NoFloor(count) == count - 1

Decrement(count) == IF count > 0 THEN count - 1 ELSE 0

(* The sync object of the document: its subscribed flag, its fetch, subscribe
   and unsubscribe calls in flight, the whenNothingPending callbacks waiting,
   those left behind on a destroyed handle, and whether the handle of the
   document was destroyed *)
NoShareDoc ==
    [subscribed |-> FALSE, inflight |-> <<>>, waiting |-> 0, orphaned |-> 0,
     destroyed |-> FALSE, data |-> "undefined"]

(* getOrCreateDoc, lines 188 and 201: a document that is not resident is
   created, with a handle of its own *)
GetOrCreateDoc(sd, resident) ==
    IF resident THEN sd ELSE [sd EXCEPT !.destroyed = FALSE, !.data = "undefined"]

(* doc.get(), line 302: the value of the document, "undefined" until a fetch
   or subscribe has brought its snapshot *)
DocGet(sd) == sd.data

(* collections[collectionName].remove(id), line 305 *)
Remove(sd) == [sd EXCEPT !.data = "undefined"]

(* The sync object has fetched the snapshot of the document *)
Ingest(sd) == [sd EXCEPT !.data = "snapshot"]

HasPending(sd) == sd.inflight # <<>>

ShareCall(sd, op, cb) == [sd EXCEPT !.inflight = Append(@, [op |-> op, cb |-> cb])]

WhenNothingPending(sd) == [sd EXCEPT !.waiting = @ + 1]

Destroy(sd) ==
    [sd EXCEPT !.subscribed = FALSE, !.waiting = 0, !.orphaned = @ + sd.waiting,
               !.destroyed = TRUE]

(* The query of the collection: its counts and idMap[DocId] *)
NoQuery == [fetchCount |-> 0, subscribeCount |-> 0, idMap |-> 0]

(* No handler of the lifecycle has run yet *)
NoStep == [op |-> "", had |-> -1, call |-> "", unload |-> "", arg |-> <<>>]

(* What completion callbacks have done so far *)
NoCallbacks ==
    [threw |-> 0, threwNullish |-> 0, failed |-> 0, delivered |-> 0,
     spared |-> 0]

(* A document with no direct reference kept by a query *)
HeldByQueryOnly(fetched, subscribed, qs) ==
    /\ fetched = 0 /\ subscribed = 0
    /\ (qs.subscribeCount # 0 \/ qs.fetchCount # 0) /\ qs.idMap > 0

(* _hasDocReferences with queries missing *)
HasDocReferences_DirectOnly(fetched, subscribed, qs) ==
    fetched # 0 \/ subscribed # 0

(* _hasDocReferences with the fetch count missing *)
HasDocReferences_NoFetchCount(fetched, subscribed, qs) ==
    \/ ~(qs.subscribeCount = 0 /\ qs.fetchCount = 0) /\ qs.idMap > 0
    \/ subscribed # 0

(* _hasDocReferences, subscriptions.ts lines 314-333 *)
HasDocReferences(fetched, subscribed, qs) ==
    \/ ~(qs.subscribeCount = 0 /\ qs.fetchCount = 0) /\ qs.idMap > 0
    \/ fetched # 0 \/ subscribed # 0

----------------------------------------------------------------------------
(* The emitter under an application whose listeners are arbitrary *)

AllListeners == [i \in ListenerIds |-> i]

(* Init of events.js lines 37-51, with some of ListenerDefs registered in order *)
Registered(ids) ==
    [t \in TreeTypes |-> SelectSeq(ids, LAMBDA l : ListenerDefs[l].type = t)]

(* subscriptions.ts lines 106-114, and a model with nothing loaded *)
InitDocs(opts, handled) ==
    /\ options = opts
    /\ errorListeners = handled
    /\ fetchedDocs = 0
    /\ subscribedDocs = 0
    /\ collections = {}
    /\ shareDoc = NoShareDoc
    /\ timers = <<>>
    /\ queries = NoQuery
    /\ ops = 0
    /\ calls = <<>>
    /\ did = NoStep
    /\ cbHist = NoCallbacks

(* A Passed object with no property, and the root model: events.js lines 204
   and 48; the root has no eventContext *)
EmptyPassed == [k \in {} |-> 0]

RootModel == [pass |-> 1, parent |-> 0, object |-> EmptyPassed, invert |-> "omitted",
              before |-> EmptyPassed]

ContextIds == {1, 2}

InitEmitter(ids, rec) ==
    /\ passedObjects = <<EmptyPassed>>
    /\ childModels = <<RootModel>>
    /\ added = <<>>
    /\ eventContextListeners = [id \in {} |-> <<>>]
    /\ removed = <<>>
    /\ recording = rec
    /\ created = 0
    /\ emittingMutation = FALSE
    /\ mutationEventQueue = <<>>
    /\ mutationListeners = Registered(ids)
    /\ stack = <<>>
    /\ exc = "none"
    /\ events = <<>>
    /\ log = <<>>
    /\ enqueued = <<>>
    /\ thrown = <<>>
    /\ returned = {}
    /\ passes = 0

(* A model on a server, with a listener for 'error' *)
InitWith(ids, rec) ==
    /\ InitDocs(ModelOptions(FALSE, 0, TRUE), TRUE)
    /\ InitEmitter(ids, rec)

Init == InitWith(AllListeners, TRUE)

EmitMutation ==
    \/ EmitStart
    \/ CallListener
    \/ ImmediateDone
    \/ OwnDone
    \/ AllDone
    \/ DrainWhile
    \/ DrainFor
    \/ DrainOwnDone
    \/ DrainAllDone
    \/ EmitUnwind

Next ==
    \/ \E m \in Mutations : AppEmit(RootScope, m.segments, m.type)
    \/ EmitMutation
    \/ \E m \in Mutations : ListenerEmit(RootScope, m.segments, m.type)
    \/ ListenerReturn
    \/ ListenerThrow
    \/ ListenerUnwind
    \/ Uncaught

Spec == Init /\ [][Next]_vars

(* The same application, also mutating through scopes derived with silent() *)
Scopes == {RootScope} \cup SilentScopes

SilentMutations == {m \in Mutations : m.segments = DocPath /\ m.type = "change"}

NextSilent ==
    \/ \E sc \in Scopes, m \in SilentMutations : AppEmit(sc, m.segments, m.type)
    \/ EmitStart
    \/ CallListener
    \/ ImmediateDone
    \/ OwnDone
    \/ AllDone
    \/ DrainWhile
    \/ DrainFor
    \/ DrainOwnDone
    \/ DrainAllDone
    \/ \E sc \in Scopes, m \in SilentMutations : ListenerEmit(sc, m.segments, m.type)
    \/ ListenerReturn

SpecSilent == Init /\ [][NextSilent]_vars

----------------------------------------------------------------------------
(* The emitter under listeners that re-trigger themselves: every listener of an
   event's own type, each time it is invoked, makes one more mutation of the
   same type at the same path, and then returns *)

(* One listener of each event type, the immediate and the 'all' listener *)
SelfTriggerListeners ==
    SelectSeq(AllListeners,
              LAMBDA l : ListenerDefs[l].type \in EventTypes
                            => ListenerDefs[l].patternSegments # <<(<<"c">>), TailWildcard>>)

InitCycle == InitWith(SelfTriggerListeners, FALSE)

SelfTrigger ==
    /\ Running("listener")
    /\ Top.type \in EventTypes /\ Top.step = 0
    /\ EmitCall(ReplaceTop([Top EXCEPT !.step = 1]), RootScope, Top.segments,
                EventType(Top.event), Top.event.id, Top.type)
    /\ UNCHANGED <<emittingMutation, mutationEventQueue, exc,
                   log, enqueued, thrown, returned, passes>>
    /\ UNCHANGED fixed

SelfTriggerReturn ==
    /\ Running("listener")
    /\ Top.type \notin EventTypes \/ Top.step = 1
    /\ stack' = Pop
    /\ UNCHANGED <<emittingMutation, mutationEventQueue, exc,
                   events, log, enqueued, thrown, returned, passes>>
    /\ UNCHANGED <<created, fixed>>

NextCycle ==
    \/ \E m \in Mutations : AppEmit(RootScope, m.segments, m.type)
    \/ EmitStart
    \/ CallListener
    \/ ImmediateDone
    \/ OwnDone
    \/ AllDone
    \/ DrainWhile
    \/ DrainFor
    \/ DrainOwnDone
    \/ DrainAllDone
    \/ SelfTrigger
    \/ SelfTriggerReturn
    \/ Uncaught

SpecCycle == InitCycle /\ [][NextCycle]_vars

----------------------------------------------------------------------------
(* Document lifecycle: fetchDoc, subscribeDoc, unfetchDoc, unsubscribeDoc, the
   timers they arm and the callbacks of the sync object *)

(* What a step of the lifecycle leaves alone *)
quiet == <<emittingMutation, mutationEventQueue, mutationListeners, recording,
           log, enqueued, returned, passes, options, errorListeners, scopeVars>>

(* What a call of the wrapped callback alone leaves alone *)
loaded == <<fetchedDocs, subscribedDocs, collections, shareDoc, created, events, cbHist>>

Callbacks == {"none", "user"}

(* cb(err, count), cb being what wrapCallback returned; a count of -1 stands
   for a call that passes no second argument *)
CallCb(cb, err, count) == stack' = Append(stack, CallbackFrame(cb, err, count))

(* The handler that ran, the count it found before decrementing (-1 when it
   decrements nothing) and the call it made on the sync object *)
Step(op, had, call) == [NoStep EXCEPT !.op = op, !.had = had, !.call = call]

(* The decision of _maybeUnloadDoc with the check of pending operations
   missing *)
UnloadDecision_NoDefer(resident, referenced, pending) ==
    IF ~resident THEN "absent"
    ELSE IF referenced THEN "referenced"
    ELSE "evicted"

(* The decision of _maybeUnloadDoc with the test of line 284 missing *)
UnloadDecision_NoAbsent(resident, referenced, pending) ==
    IF referenced THEN "referenced"
    ELSE IF pending THEN "deferred"
    ELSE "evicted"

(* The decision of _maybeUnloadDoc, lines 282-300: nothing to do for a document
   that is not there or is referenced, a later check for one with operations
   pending, eviction otherwise *)
UnloadDecision(resident, referenced, pending) ==
    IF ~resident THEN "absent"
    ELSE IF referenced THEN "referenced"
    ELSE IF pending THEN "deferred"
    ELSE "evicted"

(* The value the Unload event carries, read after the document was removed *)
Previous_AfterRemoval(sd) == DocGet(Remove(sd))

(* line 302 *)
Previous(sd) == DocGet(sd)

(* _maybeUnloadDoc, lines 281-312, run with the counters, the sync object and
   the query as its caller left them; `after` is the call chain that goes on
   when it returns and `step` what its caller did *)
MaybeUnloadDoc(step, after, fetched, subscribed, sd, qs) ==
    LET decision == UnloadDecision(DocId \in collections,
                                   HasDocReferences(fetched, subscribed, qs),
                                   HasPending(sd))
    IN  /\ fetchedDocs' = fetched
        /\ subscribedDocs' = subscribed
        /\ did' = [step EXCEPT !.unload = decision,
                               !.arg = IF decision = "evicted" THEN <<Previous(sd)>>
                                       ELSE <<>>]
        /\ IF decision \in {"absent", "referenced"}
           THEN /\ shareDoc' = sd
                /\ stack' = after
                /\ cbHist' = IF DocId \in collections
                                /\ HeldByQueryOnly(fetched, subscribed, qs)
                             THEN [cbHist EXCEPT !.spared = @ + 1]
                             ELSE cbHist
                /\ UNCHANGED <<collections, created, events>>
           ELSE IF decision = "deferred"
           THEN /\ shareDoc' = WhenNothingPending(sd)
                /\ stack' = after
                /\ UNCHANGED <<collections, created, events, cbHist>>
           ELSE /\ collections' = collections \ {DocId}
                /\ shareDoc' = Destroy(Remove(sd))
                /\ EmitCall(after, RootScope, DocPath, "unload", 0, "")
                /\ UNCHANGED cbHist

(* The application starts an operation *)
Started(op) == ops' = ops + 1 /\ calls' = Append(calls, op)

(* A reference taken while timers are armed: each of them is marked as having
   seen a new reference since it was armed *)
Renewed(ts) == [i \in DOMAIN ts |-> [ts[i] EXCEPT !.renewed = TRUE]]

(* lines 224 and 246: the test of the count that makes the call have no effect *)
NotHeld_Never(count) == FALSE

NotHeld(count) == count = 0

(* lines 184-195 *)
FetchDoc(cb) ==
    /\ Idle /\ ops < MaxOps
    /\ Started("fetchDoc")
    /\ fetchedDocs' = Increment(fetchedDocs)
    /\ collections' = collections \cup {DocId}
    /\ shareDoc' = ShareCall(GetOrCreateDoc(shareDoc, DocId \in collections), "fetch", cb)
    /\ timers' = Renewed(timers)
    /\ did' = Step("fetchDoc", -1, "fetch")
    /\ UNCHANGED <<subscribedDocs, queries, cbHist, stack, exc, created,
                   events, thrown, quiet>>

(* line 208: doc.shareDoc.subscribed *)
AlreadySubscribed_Never(sd) == FALSE

AlreadySubscribed(sd) == sd.subscribed

(* lines 211-216: what subscribeDoc asks of the sync object *)
SubscribeOp_Subscribe(fetchOnly) == "subscribe"

SubscribeOp(fetchOnly) == IF fetchOnly THEN "fetch" ELSE "subscribe"

(* lines 198-217 *)
SubscribeDoc(cb) ==
    /\ Idle /\ ops < MaxOps
    /\ Started("subscribeDoc")
    /\ subscribedDocs' = Increment(subscribedDocs)
    /\ collections' = collections \cup {DocId}
    /\ IF AlreadySubscribed(shareDoc)
       THEN /\ CallCb(cb, "", -1)
            /\ did' = Step("subscribeDoc", -1, "")
            /\ UNCHANGED shareDoc
       ELSE /\ shareDoc' = ShareCall(GetOrCreateDoc(shareDoc, DocId \in collections),
                                     SubscribeOp(options.fetchOnly), cb)
            /\ did' = Step("subscribeDoc", -1, SubscribeOp(options.fetchOnly))
            /\ UNCHANGED stack
    /\ timers' = Renewed(timers)
    /\ UNCHANGED <<fetchedDocs, queries, cbHist, exc, created, events,
                   thrown, quiet>>

(* The test with every count taken for zero *)
StillHeld_Never(count) == FALSE

(* lines 235 and 257: if (count) return cb(null, count) *)
StillHeld(count) == count # 0

(* lines 233-238 *)
FinishUnfetchDoc(cb) ==
    LET count == Decrement(fetchedDocs)
        step == Step("finishUnfetchDoc", fetchedDocs, "")
    IN  IF StillHeld(count)
        THEN /\ fetchedDocs' = count
             /\ CallCb(cb, "", count)
             /\ did' = step
             /\ UNCHANGED <<subscribedDocs, collections, shareDoc, created, events, cbHist>>
        ELSE MaybeUnloadDoc(step, Append(stack, CallbackFrame(cb, "", 0)), count,
                            subscribedDocs, shareDoc, queries)

(* lines 271-275 *)
UnsubscribeDocCallback(step, cb, err, subscribed, sd) ==
    MaybeUnloadDoc(step,
                   Append(stack, CallbackFrame(cb, err, IF err # "" THEN -1 ELSE 0)),
                   fetchedDocs, subscribed, sd, queries)

(* lines 255-270 *)
FinishUnsubscribeDoc(cb) ==
    LET count == Decrement(subscribedDocs)
        step == Step("finishUnsubscribeDoc", subscribedDocs, "")
    IN  IF StillHeld(count)
        THEN /\ subscribedDocs' = count
             /\ CallCb(cb, "", count)
             /\ did' = step
             /\ UNCHANGED <<fetchedDocs, collections, shareDoc, created, events, cbHist>>
        ELSE IF options.fetchOnly \/ DocId \notin collections
        THEN UnsubscribeDocCallback(step, cb, "", count, shareDoc)
        ELSE /\ subscribedDocs' = count
             /\ shareDoc' = ShareCall(shareDoc, "unsubscribe", cb)
             /\ did' = [step EXCEPT !.call = "unsubscribe"]
             /\ UNCHANGED <<fetchedDocs, collections, stack, created, events, cbHist>>

(* setTimeout(fn, root.unloadDelay), lines 229 and 251 *)
SetTimeout(fn, cb) ==
    timers' = Append(timers, [fn |-> fn, cb |-> cb, delay |-> options.unloadDelay,
                              renewed |-> FALSE])

(* lines 220-232 *)
UnfetchDoc(cb) ==
    /\ Idle /\ ops < MaxOps
    /\ Started("unfetchDoc")
    /\ IF NotHeld(fetchedDocs)
       THEN /\ CallCb(cb, "", -1)
            /\ did' = Step("unfetchDoc", -1, "")
            /\ UNCHANGED <<loaded, timers>>
       ELSE IF options.unloadDelay # 0
       THEN /\ SetTimeout("finishUnfetchDoc", cb)
            /\ did' = Step("unfetchDoc", -1, "")
            /\ UNCHANGED <<loaded, stack>>
       ELSE FinishUnfetchDoc(cb) /\ UNCHANGED timers
    /\ UNCHANGED <<queries, exc, thrown, quiet>>

(* lines 242-254 *)
UnsubscribeDoc(cb) ==
    /\ Idle /\ ops < MaxOps
    /\ Started("unsubscribeDoc")
    /\ IF NotHeld(subscribedDocs)
       THEN /\ CallCb(cb, "", -1)
            /\ did' = Step("unsubscribeDoc", -1, "")
            /\ UNCHANGED <<loaded, timers>>
       ELSE IF options.unloadDelay # 0
       THEN /\ SetTimeout("finishUnsubscribeDoc", cb)
            /\ did' = Step("unsubscribeDoc", -1, "")
            /\ UNCHANGED <<loaded, stack>>
       ELSE FinishUnsubscribeDoc(cb) /\ UNCHANGED timers
    /\ UNCHANGED <<queries, exc, thrown, quiet>>

(* The earliest timer fires: lines 229 and 251 *)
TimerFire ==
    /\ Idle /\ timers # <<>>
    /\ timers' = Tail(timers)
    /\ IF Head(timers).fn = "finishUnfetchDoc"
       THEN FinishUnfetchDoc(Head(timers).cb)
       ELSE FinishUnsubscribeDoc(Head(timers).cb)
    /\ UNCHANGED <<ops, calls, queries, exc, thrown, quiet>>

(* The sync object completes its earliest call, with or without an error, and
   calls the callback it was given: lines 194, 213, 215 and 268 *)
SyncComplete(err) ==
    /\ Idle /\ shareDoc.inflight # <<>>
    /\ LET call == Head(shareDoc.inflight)
           done == [shareDoc EXCEPT
                     !.inflight = Tail(@),
                     !.subscribed = IF err # "" THEN @
                                    ELSE IF call.op = "subscribe" THEN TRUE
                                    ELSE IF call.op = "unsubscribe" THEN FALSE
                                    ELSE @]
           sd == IF err = "" /\ call.op \in {"fetch", "subscribe"} /\ ~done.destroyed
                 THEN Ingest(done)
                 ELSE done
       IN  IF call.op = "unsubscribe"
           THEN UnsubscribeDocCallback(Step("unsubscribeDocCallback", -1, ""),
                                       call.cb, err, subscribedDocs, sd)
           ELSE /\ shareDoc' = sd
                /\ CallCb(call.cb, err, -1)
                /\ did' = Step("syncCallback", -1, "")
                /\ UNCHANGED <<fetchedDocs, subscribedDocs, collections, created,
                               events, cbHist>>
    /\ UNCHANGED <<ops, calls, timers, queries, exc, thrown, quiet>>

(* The sync object has nothing pending and calls a callback registered with
   whenNothingPending: lines 297-299 *)
NothingPending ==
    /\ Idle
    /\ shareDoc.waiting > 0 /\ ~HasPending(shareDoc)
    /\ MaybeUnloadDoc(Step("whenNothingPending", -1, ""), stack, fetchedDocs,
                      subscribedDocs, [shareDoc EXCEPT !.waiting = @ - 1], queries)
    /\ UNCHANGED <<ops, calls, timers, queries, exc, thrown, quiet>>

(* The same callback, of the handle of a document evicted meanwhile *)
NothingPendingDestroyed ==
    /\ Idle
    /\ shareDoc.orphaned > 0
    /\ MaybeUnloadDoc(Step("whenNothingPendingDestroyed", -1, ""), stack, fetchedDocs,
                      subscribedDocs, [shareDoc EXCEPT !.orphaned = @ - 1], queries)
    /\ UNCHANGED <<ops, calls, timers, queries, exc, thrown, quiet>>

(* A query of the collection is fetched or subscribed, with the document in its
   results or not *)
QueryRetain(count, listed) ==
    /\ Idle /\ ops < MaxOps
    /\ queries.fetchCount = 0 /\ queries.subscribeCount = 0
    /\ Started("queryRetain")
    /\ queries' = [[NoQuery EXCEPT ![count] = 1] EXCEPT !.idMap = listed]
    /\ did' = Step("queryRetain", -1, "")
    /\ UNCHANGED <<loaded, timers, stack, exc, thrown, quiet>>

(* The query is unfetched or unsubscribed, and tries to unload its results *)
QueryRelease ==
    /\ Idle /\ ops < MaxOps
    /\ queries.fetchCount # 0 \/ queries.subscribeCount # 0
    /\ Started("queryRelease")
    /\ queries' = [queries EXCEPT !.fetchCount = 0, !.subscribeCount = 0]
    /\ IF queries.idMap > 0
       THEN MaybeUnloadDoc(Step("queryRelease", -1, ""), stack, fetchedDocs,
                           subscribedDocs, shareDoc, queries')
       ELSE did' = Step("queryRelease", -1, "") /\ UNCHANGED <<loaded, stack>>
    /\ UNCHANGED <<timers, exc, thrown, quiet>>

----------------------------------------------------------------------------
(* Completion callbacks: wrapCallback, defaultCallback and _emitError *)

(* What user code throws, and the error of a failed call of the sync object *)
ThrownValues == {"callbackError", "nullish"}

CompletionErrors == {"", "completionError"}

(* _emitError rethrowing what it was given *)
EmitError_Rethrow(err, handled) == err

(* _emitError, lines 68-86: reading err.message of null or undefined is a
   TypeError, and emit('error') throws its argument when no listener is
   registered for 'error' (lines 30-31); otherwise the listeners are called *)
EmitError(err, handled) ==
    IF err = "nullish" THEN "TypeError"
    ELSE IF handled THEN "delivered"
    ELSE err

(* model._emitError(err) called from a wrapped callback, lines 34 and 63 *)
CallEmitError(err, hist) ==
    LET outcome == EmitError(err, errorListeners)
    IN  IF outcome = "delivered"
        THEN /\ stack' = Append(ReplaceTop([Top EXCEPT !.step = 1]), ErrorListenerFrame)
             /\ cbHist' = [hist EXCEPT !.delivered = @ + 1]
             /\ UNCHANGED <<exc, thrown>>
        ELSE /\ exc' = outcome
             /\ thrown' = Append(thrown, [what |-> outcome, event |-> 0, type |-> "",
                                          at |-> Len(log)])
             /\ stack' = Pop
             /\ cbHist' = hist

(* defaultCallback, lines 33-35 *)
DefaultCallback ==
    /\ Running("callback") /\ Top.cb = "none" /\ Top.step = 0
    /\ IF Top.err # ""
       THEN CallEmitError(Top.err, [cbHist EXCEPT !.failed = @ + 1])
       ELSE stack' = Pop /\ UNCHANGED <<exc, thrown, cbHist>>
    /\ UNCHANGED <<fetchedDocs, subscribedDocs, collections, shareDoc, created,
                   events, docVars, quiet>>

(* wrappedCallback, line 60: the callback of the user returns *)
WrappedCallbackReturn ==
    /\ Running("callback") /\ Top.cb = "user" /\ Top.step = 0
    /\ stack' = Pop
    /\ UNCHANGED <<exc, thrown, cbHist, created, events, docVars, quiet>>

(* wrappedCallback, lines 59-64: the callback of the user throws *)
WrappedCallbackThrow(value) ==
    /\ Running("callback") /\ Top.cb = "user" /\ Top.step = 0
    /\ CallEmitError(value, IF value = "nullish"
                            THEN [cbHist EXCEPT !.threwNullish = @ + 1]
                            ELSE [cbHist EXCEPT !.threw = @ + 1])
    /\ UNCHANGED <<created, events, docVars, quiet>>

(* _emitError has returned: the wrapped callback returns *)
CallbackEnd ==
    /\ Running("callback") /\ Top.step = 1
    /\ stack' = Pop
    /\ UNCHANGED <<exc, thrown, cbHist, created, events, docVars, quiet>>

ErrorListenerReturn ==
    /\ Running("errorListener")
    /\ stack' = Pop
    /\ UNCHANGED <<exc, thrown, cbHist, created, events, docVars, quiet>>

ErrorListenerThrow ==
    /\ Running("errorListener")
    /\ exc' = "errorListener"
    /\ thrown' = Append(thrown, [what |-> "errorListener", event |-> 0, type |-> "",
                                 at |-> Len(log)])
    /\ stack' = Pop
    /\ UNCHANGED <<cbHist, created, events, docVars, quiet>>

(* An exception of an 'error' listener passes through emit, _emitError and the
   wrapped callback *)
CallbackUnwind ==
    /\ stack # <<>> /\ exc # "none" /\ Top.kind = "callback"
    /\ stack' = Pop
    /\ UNCHANGED <<exc, thrown, cbHist, created, events, docVars, quiet>>

----------------------------------------------------------------------------
(* The lifecycle under an application that loads and unloads one document and
   one query, whose listeners and callbacks return: a server, a browser with no
   unloadDelay option, and a browser with the option supplied *)

OptionSets ==
    {ModelOptions(fetchOnly, env.delay, env.isServer) :
        fetchOnly \in BOOLEAN,
        env \in {[delay |-> 0, isServer |-> TRUE], [delay |-> 0, isServer |-> FALSE],
                 [delay |-> 500, isServer |-> FALSE]}}

InitLifecycle ==
    /\ \E opts \in OptionSets : InitDocs(opts, TRUE)
    /\ InitEmitter(AllListeners, TRUE)

(* The application passes a callback of its own to every operation *)
Supplied == {"user"}

NextDocs ==
    \/ \E cb \in Supplied : FetchDoc(cb)
    \/ \E cb \in Supplied : SubscribeDoc(cb)
    \/ \E cb \in Supplied : UnfetchDoc(cb)
    \/ \E cb \in Supplied : UnsubscribeDoc(cb)
    \/ TimerFire
    \/ \E err \in CompletionErrors : SyncComplete(err)
    \/ NothingPending
    \/ NothingPendingDestroyed
    \/ \E count \in {"fetchCount", "subscribeCount"}, listed \in {0, 1} :
          QueryRetain(count, listed)
    \/ QueryRelease
    \/ EmitStart
    \/ CallListener
    \/ ImmediateDone
    \/ OwnDone
    \/ AllDone
    \/ DrainWhile
    \/ ListenerReturn
    \/ WrappedCallbackReturn

SpecDocs == InitLifecycle /\ [][NextDocs]_vars

(* The completion callbacks of fetchDoc and subscribeDoc under an application
   whose callbacks and 'error' listeners, if it has any, return or throw *)

InitCallbacks ==
    /\ \E opts \in OptionSets, handled \in BOOLEAN : InitDocs(opts, handled)
    /\ InitEmitter(AllListeners, TRUE)

NextCallbacks ==
    \/ \E cb \in Callbacks : FetchDoc(cb)
    \/ \E cb \in Callbacks : SubscribeDoc(cb)
    \/ \E err \in CompletionErrors : SyncComplete(err)
    \/ DefaultCallback
    \/ WrappedCallbackReturn
    \/ \E value \in ThrownValues : WrappedCallbackThrow(value)
    \/ CallbackEnd
    \/ ErrorListenerReturn
    \/ ErrorListenerThrow
    \/ CallbackUnwind
    \/ Uncaught

SpecCallbacks == InitCallbacks /\ [][NextCallbacks]_vars

----------------------------------------------------------------------------
(* pass(object, invert): events.js lines 204-226 *)

(* What no step of pass() or on() changes *)
settled == <<emittingMutation, mutationEventQueue, stack,
             created, recording, events, log, enqueued, returned, passes,
             options, fetchedDocs, subscribedDocs, collections, shareDoc, timers,
             queries, ops, calls, cbHist, removed>>

(* The objects an application passes, and its invert arguments *)
PassKeys == {"a", "b"}

PassValues == {"x", "y"}

PassObjects == UNION {[keys -> PassValues] : keys \in SUBSET PassKeys}

InvertArgs == {"omitted", "false", "true"}

(* Copying the own properties of `from` onto `to`, as one step of
   Object.assign and as util.mergeInto do *)
MergeInto(to, from) ==
    [k \in DOMAIN to \cup DOMAIN from |-> IF k \in DOMAIN from THEN from[k] ELSE to[k]]

(* Object.assign(target, first, second) *)
ObjectAssign(target, first, second) == MergeInto(MergeInto(target, first), second)

(* The sources with invert ignored *)
PassSources_NoInvert(pass, object, invert) == <<pass, object>>

(* lines 209-211 and 217-223: the order in which the two sources are copied *)
PassSources(pass, object, invert) ==
    IF invert = "true" THEN <<object, pass>> ELSE <<pass, object>>

(* Model.prototype.pass called on a model made earlier, by the branch for a
   runtime with Object.assign (lines 207-212) or without (lines 213-226) *)
Pass(model, object, invert, native) ==
    /\ Idle /\ Len(childModels) < MaxScopes
    /\ LET this == childModels[model]
           heap == Append(passedObjects, EmptyPassed)
           target == Len(heap)
           sources == PassSources(heap[this.pass], object, invert)
           merged == IF native
                     THEN ObjectAssign(heap[target], sources[1], sources[2])
                     ELSE MergeInto(MergeInto(heap[target], sources[1]), sources[2])
       IN  /\ passedObjects' = [heap EXCEPT ![target] = merged]
           /\ childModels' = Append(childModels,
                                    [pass |-> target, parent |-> model, object |-> object,
                                     invert |-> invert,
                                     before |-> passedObjects[this.pass]])
    /\ UNCHANGED <<settled, did, exc, thrown, errorListeners, added,
                   mutationListeners, eventContextListeners>>

NextPass ==
    \E model \in DOMAIN childModels, object \in PassObjects, invert \in InvertArgs,
       native \in BOOLEAN : Pass(model, object, invert, native)

SpecPass == Init /\ [][NextPass]_vars

----------------------------------------------------------------------------
(* on(type, pattern, options, cb) for mutation events: events.js lines 139-148,
   276-300, 313-353, 377-427 and 533-541. A pattern is the sequence of its
   characters. *)

(* The patterns an application registers: none, **, a, a.*, a.**, a**, **.a,
   a.**.b and *.** *)
Patterns ==
    {<<>>, TailWildcard, <<"a">>, <<"a", ".", "*">>, <<"a", ".", "*", "*">>,
     <<"a", "*", "*">>, <<"*", "*", ".", "a">>,
     <<"a", ".", "*", "*", ".", "b">>, <<"*", ".", "*", "*">>}

ListenerTypes == {"change", "all", "error"}

(* model.path(subpath) of the root model *)
Path(subpath) == subpath

(* pattern.charAt(i), counting from 1: the empty string off the ends *)
CharAt(pattern, i) == IF i \in DOMAIN pattern THEN pattern[i] ELSE ""

(* normalizePattern, lines 533-541 *)
normalizePattern(pattern) ==
    LET end == Len(pattern)
    IN  IF /\ CharAt(pattern, end) = "*"
           /\ CharAt(pattern, end - 1) = "*"
           /\ CharAt(pattern, end - 2) # "."
           /\ CharAt(pattern, end - 2) # ""
        THEN SubSeq(pattern, 1, end - 2) \o <<".", "*", "*">>
        ELSE pattern

(* pattern.split('.'), line 378 *)
RECURSIVE Split(_)
Split(pattern) ==
    IF \A i \in DOMAIN pattern : pattern[i] # "."
    THEN <<pattern>>
    ELSE LET dot == CHOOSE i \in DOMAIN pattern :
                       pattern[i] = "." /\ \A j \in 1..(i - 1) : pattern[j] # "."
         IN  <<SubSeq(pattern, 1, dot - 1)>> \o Split(SubSeq(pattern, dot + 1, Len(pattern)))

(* The test of the tail wildcard's place left out *)
Misplaced_Never(patternSegments) == FALSE

(* lines 387-401: a ** that is not the last segment *)
Misplaced(patternSegments) ==
    \E i \in DOMAIN patternSegments :
        patternSegments[i] = TailWildcard /\ i # Len(patternSegments)

(* new MutationListener(patternSegments, eventContext, fn), lines 370-375, or
   the Error thrown instead *)
MutationListener(patternSegments, eventContext, fn) ==
    [error |-> "", patternSegments |-> patternSegments, eventContext |-> eventContext,
     fn |-> fn]

PatternError ==
    [error |-> "patternError", patternSegments |-> <<>>, eventContext |-> 0, fn |-> ""]

(* createMutationListener, lines 377-414 *)
createMutationListener(pattern, eventContext) ==
    LET patternSegments == Split(pattern)
    IN  IF Len(patternSegments) = 1 /\ patternSegments[1] = TailWildcard
        THEN MutationListener(patternSegments, eventContext, ListenerFn(patternSegments))
        ELSE IF Misplaced(patternSegments)
        THEN PatternError
        ELSE MutationListener(patternSegments, eventContext, ListenerFn(patternSegments))

(* createMutationListenerLegacy, lines 416-427 *)
createMutationListenerLegacy(type, pattern, eventContext) ==
    createMutationListener(pattern, eventContext)

(* getMutationListener, lines 313-353, called with a pattern and a callback *)
getMutationListener(eventContext, type, arg1, useEventObjects) ==
    LET pattern == Path(arg1)
    IN  IF pattern = <<>>
        THEN MutationListener(<<TailWildcard>>, eventContext, "cb")
        ELSE IF useEventObjects
        THEN createMutationListener(normalizePattern(pattern), eventContext)
        ELSE createMutationListenerLegacy(type, normalizePattern(pattern), eventContext)

(* _addMutationListener, lines 276-300, called on a model of the root scope
   with this eventContext, 0 for none, by on() or by once(): the listener joins
   its tree and the index of its context. An added listener is named by the
   number after those of ListenerDefs. *)
AddMutationListener(eventContext, type, pattern, useEventObjects, once) ==
    LET listener == getMutationListener(eventContext, type, pattern, useEventObjects)
        id == Len(ListenerDefs) + Len(added) + 1
    IN  IF listener.error # ""
        THEN /\ exc' = listener.error
             /\ thrown' = Append(thrown, [what |-> "pattern", event |-> 0,
                                          type |-> type, at |-> Len(log)])
             /\ UNCHANGED <<added, mutationListeners, eventContextListeners>>
        ELSE /\ added' = Append(added, [type |-> type,
                                        patternSegments |-> listener.patternSegments,
                                        eventContext |-> listener.eventContext,
                                        fn |-> listener.fn,
                                        once |-> once,
                                        asked |-> pattern])
             /\ mutationListeners' = [mutationListeners EXCEPT ![type] = Append(@, id)]
             /\ eventContextListeners' =
                   IF eventContext = 0 THEN eventContextListeners
                   ELSE IF eventContext \in DOMAIN eventContextListeners
                   THEN Put(eventContextListeners, eventContext,
                            Append(eventContextListeners[eventContext], id))
                   ELSE Put(eventContextListeners, eventContext, <<id>>)
             /\ UNCHANGED <<exc, thrown>>

(* Model.prototype.on, lines 139-148 *)
On(eventContext, type, pattern, useEventObjects) ==
    /\ Idle /\ Len(added) + Len(thrown) < MaxListeners
    /\ did' = [Step("on", -1, "") EXCEPT !.arg = <<type, pattern, eventContext>>]
    /\ IF type \notin TreeTypes
       THEN /\ errorListeners' = TRUE
            /\ UNCHANGED <<added, mutationListeners, eventContextListeners, exc, thrown>>
       ELSE /\ AddMutationListener(eventContext, type, pattern, useEventObjects, FALSE)
            /\ UNCHANGED errorListeners
    /\ UNCHANGED <<settled, passedObjects, childModels>>

(* Model.prototype.once for a mutation event, lines 151-157, and
   onceWrapListener, lines 162-168 *)
Once(eventContext, type, pattern, useEventObjects) ==
    /\ Idle /\ Len(added) + Len(thrown) < MaxListeners
    /\ type \in TreeTypes
    /\ did' = [Step("once", -1, "") EXCEPT !.arg = <<type, pattern, eventContext>>]
    /\ AddMutationListener(eventContext, type, pattern, useEventObjects, TRUE)
    /\ UNCHANGED <<settled, passedObjects, childModels, errorListeners>>

(* removeContextListeners() on a model with this eventContext, 0 for none,
   lines 246-257, called by the application or by a listener callback *)
RemoveContextListeners(eventContext) ==
    /\ Idle \/ Running("listener")
    /\ Len(removed) < MaxRemovals
    /\ did' = [Step("removeContextListeners", -1, "") EXCEPT !.arg = <<eventContext>>]
    /\ IF eventContext = 0 \/ eventContext \notin DOMAIN eventContextListeners
       THEN /\ UNCHANGED <<mutationListeners, eventContextListeners>>
            /\ removed' = Append(removed, [eventContext |-> eventContext,
                                           listeners |-> <<>>, created |-> created])
       ELSE LET listeners == eventContextListeners[eventContext]
            IN  /\ eventContextListeners' = Delete(eventContextListeners, eventContext)
                /\ mutationListeners' = RemoveOwnListeners(mutationListeners, listeners)
                /\ removed' = Append(removed, [eventContext |-> eventContext,
                                               listeners |-> listeners,
                                               created |-> created])
    /\ UNCHANGED <<emittingMutation, mutationEventQueue, stack, exc, created,
                   recording, events, log, enqueued, thrown, returned, passes, options,
                   errorListeners, fetchedDocs, subscribedDocs, collections, shareDoc,
                   timers, queries, ops, calls, cbHist, passedObjects, childModels,
                   added>>

NextListeners ==
    \/ \E eventContext \in {0} \cup ContextIds, type \in ListenerTypes,
          pattern \in Patterns, useEventObjects \in BOOLEAN :
          On(eventContext, type, pattern, useEventObjects)
    \/ Uncaught

SpecListeners == Init /\ [][NextListeners]_vars

(* Listeners with captures: an application that registers patterns under a and
   changes a, a.x and a.x.y *)
CapturePatterns ==
    {<<"a">>, <<"a", ".", "*">>, <<"a", ".", "*", "*">>, <<"a", "*", "*">>,
     TailWildcard, <<"*", ".", "*", "*">>, <<"a", ".", "*", ".", "*">>}

Paths ==
    {<<(<<"a">>)>>, <<(<<"a">>), (<<"x">>)>>, <<(<<"a">>), (<<"x">>), (<<"y">>)>>}

InitCaptures == InitWith(<<>>, FALSE)

NextCaptures ==
    \/ \E pattern \in CapturePatterns \cup {<<>>}, useEventObjects \in BOOLEAN :
          On(0, "change", pattern, useEventObjects)
    \/ \E segments \in Paths : AppEmit(RootScope, segments, "change")
    \/ EmitStart
    \/ CallListener
    \/ ImmediateDone
    \/ OwnDone
    \/ AllDone
    \/ DrainWhile
    \/ ListenerReturn

SpecCaptures == InitCaptures /\ [][NextCaptures]_vars

(* Listeners that come and go: an application that registers listeners for **
   with on() and once(), with and without an eventContext, removes the
   listeners of a context, and changes a, as do its listeners *)
RegistryTypes == {"change", "changeImmediate"}

RegistryPath == <<(<<"a">>)>>

InitRegistry == InitWith(<<>>, TRUE)

NextRegistry ==
    \/ \E eventContext \in {0} \cup ContextIds, type \in RegistryTypes :
          \/ On(eventContext, type, TailWildcard, TRUE)
          \/ Once(eventContext, type, TailWildcard, TRUE)
    \/ \E eventContext \in {0} \cup ContextIds : RemoveContextListeners(eventContext)
    \/ AppEmit(RootScope, RegistryPath, "change")
    \/ ListenerEmit(RootScope, RegistryPath, "change")
    \/ EmitStart
    \/ CallListener
    \/ ImmediateDone
    \/ OwnDone
    \/ AllDone
    \/ DrainWhile
    \/ DrainFor
    \/ DrainOwnDone
    \/ DrainAllDone
    \/ ListenerReturn

SpecRegistry == InitRegistry /\ [][NextRegistry]_vars

(* Listeners of render contexts: an application that registers listeners for
   ** under its eventContexts and under none, removes the listeners of a
   context, also from a listener, and changes a, as do its listeners; no
   history of its events is kept *)
InitContext == InitWith(<<>>, FALSE)

NextContext ==
    \/ \E eventContext \in {0} \cup ContextIds : On(eventContext, "change", TailWildcard, TRUE)
    \/ On(1, "changeImmediate", TailWildcard, TRUE)
    \/ \E eventContext \in {0, 1} : RemoveContextListeners(eventContext)
    \/ created < MaxContextEvents /\ AppEmit(RootScope, RegistryPath, "change")
    \/ created < MaxContextEvents /\ ListenerEmit(RootScope, RegistryPath, "change")
    \/ EmitStart
    \/ CallListener
    \/ ImmediateDone
    \/ OwnDone
    \/ AllDone
    \/ DrainWhile
    \/ DrainFor
    \/ DrainOwnDone
    \/ DrainAllDone
    \/ ListenerReturn

SpecContext == InitContext /\ [][NextContext]_vars

----------------------------------------------------------------------------
(* Vocabulary of the properties *)

Last(q) == q[Len(q)]

SeqToSet(q) == {q[i] : i \in DOMAIN q}

QueuedTypes == EventTypes \cup {"all"}

(* The tree type of an event's immediate phase, as events.js lines 434-479 name it *)
ImmediateTypeOf(e) ==
    IF events[e].type = "change" THEN "changeImmediate" ELSE "unloadImmediate"

(* A pattern matches a path: "*" stands for one segment, a final "**" for the rest *)
Matches(pattern, segments) ==
    IF pattern # <<>> /\ Last(pattern) = TailWildcard
    THEN /\ Len(segments) >= Len(pattern) - 1
         /\ \A i \in 1..(Len(pattern) - 1) : pattern[i] \in {Wildcard, segments[i]}
    ELSE /\ Len(segments) = Len(pattern)
         /\ \A i \in DOMAIN pattern : pattern[i] \in {Wildcard, segments[i]}

(* The listeners registered for a tree type that match an event's path *)
Matching(type, e) ==
    {l \in SeqToSet(mutationListeners[type]) :
        Matches(Listener(l).patternSegments, events[e].segments)}

Dispatches(e, type) ==
    {k \in DOMAIN log : log[k].kind = "dispatch" /\ log[k].event = e /\ log[k].type = type}

Calls(e, type, l) ==
    {k \in DOMAIN log : /\ log[k].kind = "call" /\ log[k].event = e
                        /\ log[k].type = type /\ log[k].listener = l}

(* Everything the queued phase did for an event: own-type and 'all' *)
QueuedEntries(e) ==
    {k \in DOMAIN log : log[k].event = e /\ log[k].type \in QueuedTypes}

EmittedSilently(e) ==
    events[e].via # <<>> /\ Last(events[e].via) \in {"undefined", "true"}

(* The own-type and 'all' listeners of an event have all returned *)
DispatchComplete(e) ==
    /\ Dispatches(e, "all") # {}
    /\ \A k \in DOMAIN stack :
          ~(stack[k].event.id = e /\ stack[k].type \in QueuedTypes
            /\ (stack[k].kind = "listener"
                \/ (stack[k].kind = "emit" /\ stack[k].pc \in DispatchPcs)))

(* No activation of _emitMutation is past line 100: no emission is in flight *)
NoneInFlight ==
    \A k \in DOMAIN stack :
        stack[k].kind = "emit" => stack[k].pc \in {"start", "immediate"}

----------------------------------------------------------------------------
(* C1: while a listener of event B's own type or of type 'all' is being
   invoked, and B was emitted from inside a listener invoked for event A
   (of A's own type, of type 'all' or of A's immediate type), all of A's
   own-type and 'all' listeners have already returned; and an emit call made
   while an emission is in flight never gets past the immediate phase: it
   only appends to the pending queue and returns. *)
C1_NonInterleavedDispatch ==
    /\ \A k \in DOMAIN stack :
          (/\ stack[k].kind = "listener"
           /\ stack[k].type \in QueuedTypes
           /\ events[stack[k].event.id].parent # 0)
          => DispatchComplete(events[stack[k].event.id].parent)
    /\ \A k \in DOMAIN stack :
          (stack[k].kind = "emit" /\ events[stack[k].call].inFlight)
          => stack[k].pc \in {"start", "immediate"}

(* The part of C1 the code keeps: the same, for an event B emitted from a
   listener of A's own type or of type 'all' *)
C1_QueuedListenersOnly ==
    /\ \A k \in DOMAIN stack :
          (/\ stack[k].kind = "listener"
           /\ stack[k].type \in QueuedTypes
           /\ events[stack[k].event.id].parent # 0
           /\ events[stack[k].event.id].parentType \in QueuedTypes)
          => DispatchComplete(events[stack[k].event.id].parent)
    /\ \A k \in DOMAIN stack :
          (stack[k].kind = "emit" /\ events[stack[k].call].inFlight)
          => stack[k].pc \in {"start", "immediate"}

(* C2: for every event emitted through a non-silent scope, once the emit call
   has returned every matching listener of the event's immediate type has been
   invoked, whether or not an emission was in flight at the call; and whenever
   the queued phase has done anything for the event, every matching immediate
   listener was invoked before that. *)
C2_ImmediateFirst ==
    \A e \in DOMAIN events :
        ~EmittedSilently(e) =>
            LET immediate == ImmediateTypeOf(e)
                entries == SelectSeq(log, LAMBDA x : x.event = e)
                Invoked(l) ==
                    \E j \in DOMAIN entries :
                        entries[j] = [kind |-> "call", event |-> e, type |-> immediate,
                                      listener |-> l]
                queued == \E k \in DOMAIN entries : entries[k].type \in QueuedTypes
            IN  /\ (e \in returned \/ queued) =>
                      \A l \in Matching(immediate, e) : Invoked(l)
                /\ \A k \in 1..(Len(entries) - 1) :
                      entries[k].type \in QueuedTypes =>
                          entries[k + 1].type \in QueuedTypes

(* C2 witness: an emit made while an emission was in flight has returned after
   its matching immediate listener ran *)
C2_Witness ==
    \E e \in DOMAIN events :
        /\ events[e].inFlight /\ e \in returned
        /\ Matching(ImmediateTypeOf(e), e) # {}
        /\ \A l \in Matching(ImmediateTypeOf(e), e) : Calls(e, ImmediateTypeOf(e), l) # {}

(* C4: when the outermost emit has returned and nothing was thrown, every
   event emitted through a non-silent scope was dispatched exactly once to its
   own type and exactly once to 'all': one _callMutationListeners call each,
   and one invocation of every matching listener. *)
C4_ExactlyOnce ==
    (stack = <<>> /\ exc = "none" /\ thrown = <<>>) =>
        \A e \in DOMAIN events :
            ~EmittedSilently(e) =>
                \A type \in {events[e].type, "all"} :
                    /\ Cardinality(Dispatches(e, type)) = 1
                    /\ \A l \in SeqToSet(mutationListeners[type]) :
                          Cardinality(Calls(e, type, l)) =
                              IF l \in Matching(type, e) THEN 1 ELSE 0

(* C4 witness: three events, two of them emitted re-entrantly from listeners,
   all delivered by the time the outermost emit returned *)
C4_Witness ==
    /\ stack = <<>> /\ exc = "none" /\ thrown = <<>>
    /\ Len(events) = 3 /\ Len(enqueued) = 2
    /\ \A e \in DOMAIN events : Dispatches(e, "all") # {}

(* C5: events are dispatched in the order they were queued: everything the
   queued phase does for an event queued earlier precedes everything it does
   for an event queued later, the earlier event's 'all' dispatch included; and
   an event still waiting in the pending queue (such as one queued while a
   drain batch is being dispatched) has not been dispatched. *)
C5_Fifo ==
    /\ \A i \in DOMAIN enqueued : \A j \in DOMAIN enqueued :
          (i < j /\ QueuedEntries(enqueued[j]) # {}) =>
              /\ Dispatches(enqueued[i], "all") # {}
              /\ \A a \in QueuedEntries(enqueued[i]) :
                    \A b \in QueuedEntries(enqueued[j]) : a < b
    /\ \A i \in DOMAIN mutationEventQueue :
          QueuedEntries(mutationEventQueue[i].event.id) = {}
    /\ \A k \in DOMAIN stack :
          (stack[k].kind = "emit" /\ stack[k].pc \in {"for", "drainOwn", "drainAll"}) =>
              \A i \in stack[k].qi..Len(stack[k].queue) :
                  QueuedEntries(stack[k].queue[i].event.id) = {}

(* C5 witness: two events queued one after the other while one batch was
   dispatching, both delivered *)
C5_Witness ==
    /\ Len(enqueued) = 2
    /\ events[enqueued[1]].parent = events[enqueued[2]].parent
    /\ Dispatches(enqueued[2], "all") # {}

(* C7: no emission of a finite chain ends in the cycle error, and whenever
   nothing was thrown and no emission is in flight any more (the outermost
   emit has returned), the in-flight flag is false and the pending queue is
   empty. *)
C7_CleanReturn ==
    /\ \A i \in DOMAIN thrown : thrown[i].what # "cycle"
    /\ (thrown = <<>> /\ NoneInFlight) =>
           (emittingMutation = FALSE /\ mutationEventQueue = <<>>)

(* C7 witness: a chain of three events, each emitted by a listener of the one
   before, has been delivered in two drain passes and the emit has returned *)
C7_Witness ==
    /\ stack = <<>> /\ thrown = <<>> /\ passes = 2
    /\ Len(events) = 3 /\ events[2].parent = 1 /\ events[3].parent = 2
    /\ 1 \in returned
    /\ \A e \in DOMAIN events : Dispatches(e, "all") # {}

(* C3: an event emitted through a scope derived with silent() or silent(true)
   reaches no listener of any type and is never queued, and the step that
   handles its emit call returns at once leaving the in-flight flag, the
   pending queue and the listener trees as they were; an event emitted through
   a scope derived with silent(false), also from a silent scope, is emitted
   normally: once its call has returned its immediate phase has run and it
   was dispatched or queued. *)
C3_SilentScope ==
    /\ [](\A e \in DOMAIN events :
            /\ EmittedSilently(e) =>
                  /\ \A k \in DOMAIN log : log[k].event # e
                  /\ e \notin SeqToSet(enqueued)
            /\ (events[e].via # <<>> /\ Last(events[e].via) = "false" /\ e \in returned) =>
                  /\ Dispatches(e, ImmediateTypeOf(e)) # {}
                  /\ Dispatches(e, events[e].type) # {} \/ e \in SeqToSet(enqueued))
    /\ [][(/\ stack # <<>> /\ Top.kind = "emit" /\ Top.pc = "start"
           /\ EmittedSilently(Top.call))
          => /\ stack' = Pop
             /\ UNCHANGED <<emittingMutation, mutationEventQueue,
                            log, enqueued>>]_vars

(* C3 witness: an event was emitted through silent() while an emission was in
   flight and another event was waiting in the queue, and its call returned;
   and an event emitted through silent(true).silent(false) was dispatched *)
C3_Witness ==
    /\ emittingMutation /\ mutationEventQueue # <<>>
    /\ \E e \in DOMAIN events :
          events[e].via = <<"undefined">> /\ events[e].inFlight /\ e \in returned
    /\ \E e \in DOMAIN events :
          events[e].via = <<"true", "false">> /\ Dispatches(e, "all") # {}

(* C6: when every own-type listener re-emits on each invocation, at most 1000
   drain passes dispatch events, the cycle error is thrown only after exactly
   that many, and an outermost emit that started such a chain does not return
   normally: once the call chain is over the cycle error has been thrown. *)
C6_CycleCap ==
    /\ passes <= CycleLimit
    /\ \A i \in DOMAIN thrown : thrown[i].what = "cycle" /\ passes = CycleLimit
    /\ (stack = <<>> /\ passes > 0) => thrown # <<>>

(* C6 witness: the cycle error was thrown after the 1000th pass *)
C6_Witness ==
    /\ stack = <<>> /\ passes = CycleLimit
    /\ thrown # <<>> /\ thrown[1].what = "cycle"

(* C8: an exception thrown by a listener is not caught by the emitter: the
   activation of _emitMutation that was dispatching is left with the exception
   still propagating and nothing else done, and no listener later in the same
   dispatch list is invoked afterwards. *)
C8_ListenerExceptionPropagates ==
    /\ [](\A i \in DOMAIN thrown :
            thrown[i].what = "listener" =>
                \A k \in DOMAIN log :
                    k > thrown[i].at =>
                        ~(/\ log[k].kind = "call"
                          /\ log[k].event = thrown[i].event
                          /\ log[k].type = thrown[i].type))
    /\ [][(stack # <<>> /\ exc = "listener" /\ Top.kind = "emit")
          => /\ stack' = Pop
             /\ exc' = exc
             /\ UNCHANGED <<emittingMutation, mutationEventQueue, log, enqueued,
                            cbHist>>]_vars

(* C8 witness: the first of two matching listeners of one dispatch list threw,
   and the exception went out of every activation to the top-level caller *)
C8_Witness ==
    /\ stack = <<>> /\ exc = "listener"
    /\ thrown # <<>> /\ thrown[1].what = "listener"
    /\ Cardinality(Matching(thrown[1].type, thrown[1].event)) > 1
    /\ \E l \in Matching(thrown[1].type, thrown[1].event) :
          Calls(thrown[1].event, thrown[1].type, l) = {}

(* The exceptions of one kind raised so far *)
Raised(what) == Cardinality({i \in DOMAIN thrown : thrown[i].what = what})

(* C9 as the specification states it: what a user-supplied completion callback
   throws never reaches the code that invoked the wrapped callback, and every
   such exception, and every completion error that finds no callback, has
   become an 'error' event given to the listeners of 'error'. *)
C9_CallbackIsolation ==
    /\ exc \notin {"callbackError", "TypeError"}
    /\ (Idle /\ errorListeners) =>
          cbHist.delivered = cbHist.threw + cbHist.threwNullish + cbHist.failed

(* C9: an exception thrown by a user-supplied completion callback is caught by
   the wrapper and handed to _emitError.  With a listener registered for
   'error' a thrown value other than null or undefined is given to the
   listeners as an 'error' event and does not reach the invoker of the wrapped
   callback; with no listener registered emit('error') throws it to the
   invoker; a thrown null or undefined reaches the invoker as a TypeError of
   _emitError.  With no callback supplied a completion error is handed to
   _emitError likewise, and a completion without error emits nothing. *)
C9_CallbackErrorEvent ==
    /\ exc = "callbackError" => (~errorListeners /\ cbHist.threw > 0)
    /\ exc = "completionError" => (~errorListeners /\ cbHist.failed > 0)
    /\ exc = "TypeError" => cbHist.threwNullish > 0
    /\ Idle =>
          /\ Raised("TypeError") = cbHist.threwNullish
          /\ IF errorListeners
             THEN /\ cbHist.delivered = cbHist.threw + cbHist.failed
                  /\ Raised("callbackError") = 0
                  /\ Raised("completionError") = 0
             ELSE /\ cbHist.delivered = 0
                  /\ Raised("callbackError") = cbHist.threw
                  /\ Raised("completionError") = cbHist.failed

(* C9 witness: with a listener for 'error', a user callback threw and a
   completion failed with no callback, both became 'error' events and nothing
   reached an invoker *)
C9_Witness ==
    /\ Idle /\ errorListeners /\ thrown = <<>>
    /\ cbHist.threw > 0 /\ cbHist.failed > 0
    /\ cbHist.delivered = cbHist.threw + cbHist.failed

(* A step removes the document from its collection; a step emits an event *)
Evicts == DocId \in collections /\ DocId \notin collections'

Unloads == created' = created + 1

(* C10: the document is removed from the collection, and an Unload event is
   emitted, only together and only by a step that leaves the fetch count 0,
   the subscribe count 0, no fetched or subscribed query with idMap[id] > 0 and
   nothing pending on the sync object; the event is an Unload at the path of
   the document. *)
C10_EvictionSafety ==
    [][(Evicts \/ Unloads) =>
          /\ Evicts /\ Unloads
          /\ fetchedDocs' = 0 /\ subscribedDocs' = 0
          /\ ~((queries'.fetchCount > 0 \/ queries'.subscribeCount > 0)
               /\ queries'.idMap > 0)
          /\ ~HasPending(shareDoc')
          /\ stack' # <<>>
          /\ stack'[Len(stack')].kind = "emit"
          /\ stack'[Len(stack')].event.type = "unload"
          /\ stack'[Len(stack')].segments = DocPath]_vars

(* C10 witness: the document, kept earlier by a live query alone with both
   counts at zero, has just been evicted and its Unload event is being emitted *)
C10_Witness ==
    /\ stack # <<>> /\ Top.kind = "emit" /\ Top.pc = "start"
    /\ Top.event.type = "unload"
    /\ DocId \notin collections
    /\ cbHist.spared > 0

(* The operations the application has started so far, and the calls and timers
   of the lifecycle that are still to run *)
Armed(fn) == \E i \in DOMAIN timers : timers[i].fn = fn

InFlight(op) == \E i \in DOMAIN shareDoc.inflight : shareDoc.inflight[i].op = op

UnsubscribeCompleted ==
    subscribedDocs = 0 /\ ~Armed("finishUnsubscribeDoc") /\ ~InFlight("unsubscribe")

UnfetchCompleted == fetchedDocs = 0 /\ ~Armed("finishUnfetchDoc")

(* C11: once the application has called subscribeDoc, fetchDoc and
   unsubscribeDoc, in this order, the document is resident and no Unload event
   has been emitted, whether the unsubscription has completed or not. Once it
   has then called unfetchDoc, the unsubscription and the unfetch have run, and
   the sync object has nothing pending and no deferred check waiting, the
   document is gone from its collection, its handle is destroyed and exactly
   one Unload event has been emitted. *)
C11_LastReferenceEvicts ==
    /\ calls = <<"subscribeDoc", "fetchDoc", "unsubscribeDoc">>
          => DocId \in collections /\ created = 0 /\ ~shareDoc.destroyed
    /\ (/\ calls = <<"subscribeDoc", "fetchDoc", "unsubscribeDoc", "unfetchDoc">>
        /\ UnsubscribeCompleted /\ UnfetchCompleted
        /\ ~HasPending(shareDoc) /\ shareDoc.waiting = 0)
          => DocId \notin collections /\ created = 1 /\ shareDoc.destroyed

(* C11 witness: the four operations have run, the unsubscription having
   completed while the fetch reference was still held, and the delayed unfetch
   has just evicted the document *)
C11_Witness ==
    /\ calls = <<"subscribeDoc", "fetchDoc", "unsubscribeDoc", "unfetchDoc">>
    /\ options.unloadDelay # 0
    /\ did.op = "finishUnfetchDoc" /\ did.unload = "evicted"
    /\ UnsubscribeCompleted /\ UnfetchCompleted
    /\ DocId \notin collections /\ created = 1 /\ shareDoc.destroyed

(* The earliest timer fires *)
Fires == Idle /\ timers # <<>> /\ timers' = Tail(timers)

StillReferenced == fetchedDocs' > 0 \/ subscribedDocs' > 0

(* C12: when a timer armed by unfetchDoc or unsubscribeDoc fires after a new
   fetchDoc or subscribeDoc of the document has arrived, the document is not
   evicted, no Unload event is emitted and the document stays referenced. *)
C12_RenewedReferenceKeeps ==
    [][(Fires /\ Head(timers).renewed) =>
          ~Evicts /\ ~Unloads /\ DocId \in collections' /\ StillReferenced]_vars

(* The timers armed for one of the two releases, and the count it decrements *)
ArmedFor(fn) == Cardinality({i \in DOMAIN timers : timers[i].fn = fn})

CountOf(fn) == IF fn = "finishUnfetchDoc" THEN fetchedDocs ELSE subscribedDocs

(* C12, for an application that releases no more references than it has taken
   (the count a timer is to decrement exceeds the number of timers armed for
   it): the timer that fires after a new reference leaves the document
   resident and referenced, and emits nothing. *)
C12_BalancedRenewalKeeps ==
    [][(/\ Fires /\ Head(timers).renewed
        /\ CountOf(Head(timers).fn) > ArmedFor(Head(timers).fn)) =>
          ~Evicts /\ ~Unloads /\ DocId \in collections' /\ StillReferenced]_vars

(* A handler of the lifecycle has run _maybeUnloadDoc in this step *)
TriedUnload == Idle /\ did'.unload # ""

(* The document is referenced by a count or by a live query that lists it *)
Referenced ==
    \/ fetchedDocs > 0 \/ subscribedDocs > 0
    \/ (queries.fetchCount > 0 \/ queries.subscribeCount > 0) /\ queries.idMap > 0

(* C13: _maybeUnloadDoc, finding the document resident and unreferenced while
   the sync object has operations pending, neither evicts it nor emits
   anything, and registers one more callback with whenNothingPending. When
   such a callback fires the references are checked again: the document is
   evicted, with its Unload event, if it is unreferenced, and left resident,
   with nothing emitted, if it is referenced again. *)
C13_DeferredEviction ==
    [][/\ (/\ TriedUnload /\ DocId \in collections
           /\ ~Referenced' /\ HasPending(shareDoc'))
          => /\ ~Evicts /\ ~Unloads
             /\ did'.unload = "deferred"
             /\ shareDoc'.waiting = shareDoc.waiting + 1
       /\ (Idle /\ did'.op = "whenNothingPending")
          => /\ shareDoc.waiting > 0 /\ DocId \in collections
             /\ IF Referenced
                THEN ~Evicts /\ ~Unloads /\ DocId \in collections'
                ELSE Evicts /\ Unloads /\ shareDoc'.destroyed]_vars

(* C13 witness: a check deferred because of a pending operation has been run
   by the callback of whenNothingPending, and has evicted the document *)
C13_Witness ==
    /\ did.op = "whenNothingPending" /\ did.unload = "evicted"
    /\ DocId \notin collections /\ shareDoc.destroyed
    /\ stack # <<>> /\ Top.kind = "emit" /\ Top.event.type = "unload"

(* The other case: the callback found the document referenced again *)
C13_WitnessReferenced ==
    /\ did.op = "whenNothingPending" /\ did.unload = "referenced"
    /\ DocId \in collections /\ fetchedDocs + subscribedDocs > 0

(* A step that runs finishUnfetchDoc or finishUnsubscribeDoc, the count it
   leaves, and the step in which the sync object completes an unsubscribe *)
Finishes == Idle /\ did'.op \in {"finishUnfetchDoc", "finishUnsubscribeDoc"}

Remaining == IF did'.op = "finishUnfetchDoc" THEN fetchedDocs' ELSE subscribedDocs'

Unsubscribed == Idle /\ did'.op = "unsubscribeDocCallback"

(* The callback of the operation is called in this step, with these arguments *)
Reports(err, count) ==
    /\ stack' # <<>> /\ stack'[1].kind = "callback"
    /\ stack'[1].err = err /\ stack'[1].count = count

(* What C14 says of a decrement: above zero the callback gets the remaining
   count and nothing else happens; at zero the sync object is unsubscribed or
   the eviction is attempted, and where the eviction is attempted at once the
   callback gets 0 *)
CountedRelease ==
    Finishes =>
       /\ Remaining > 0 =>
             /\ Reports("", Remaining) /\ Len(stack') = 1
             /\ did'.call = "" /\ did'.unload = ""
             /\ UNCHANGED <<shareDoc, collections, created>>
       /\ Remaining = 0 =>
             /\ (did'.call = "unsubscribe") # (did'.unload # "")
             /\ did'.unload # "" => Reports("", 0)
             /\ did'.call = "unsubscribe" => stack' = <<>> /\ did'.op = "finishUnsubscribeDoc"

(* C14, as stated: a decrement that leaves a count above zero calls back with
   no error and the remaining count, and neither unsubscribes the sync object
   nor attempts the eviction; a decrement to zero unsubscribes or attempts the
   eviction, and the callback then reports 0, also when it is called on the
   completion of the unsubscription. *)
C14_ReportsZero ==
    [][/\ CountedRelease
       /\ Unsubscribed => did'.unload # "" /\ Reports("", 0)]_vars

(* C14, amended: as above, but the callback called on the completion of the
   unsubscription reports 0 only if the unsubscription succeeded; if it failed
   the callback gets the error and no count, the eviction being attempted all
   the same. *)
C14_ReportsZeroOrError ==
    [][/\ CountedRelease
       /\ Unsubscribed =>
             /\ did'.unload # ""
             /\ \/ Reports("", 0)
                \/ Reports("completionError", -1)]_vars

(* C14 witness: a delayed unfetch has just found a count of 2, left 1 and
   called back with it *)
C14_Witness ==
    /\ did.op = "finishUnfetchDoc" /\ did.had = 2 /\ fetchedDocs = 1
    /\ stack # <<>> /\ Top.kind = "callback" /\ Top.count = 1 /\ Top.err = ""
    /\ DocId \in collections

(* The other cases: the callback reports 0 after the unsubscription, and gets
   the error of a failed one *)
C14_WitnessZero ==
    /\ did.op = "unsubscribeDocCallback" /\ stack # <<>>
    /\ stack[1].kind = "callback" /\ stack[1].count = 0 /\ stack[1].err = ""

C14_WitnessError ==
    /\ did.op = "unsubscribeDocCallback" /\ stack # <<>>
    /\ stack[1].kind = "callback" /\ stack[1].err = "completionError"

(* C15: subscribeDoc on a document whose sync object is already subscribed
   makes no call on the sync object, calls its callback at once with no error,
   and still increments the subscribe count by one. *)
C15_AlreadySubscribed ==
    [][(Idle /\ did'.op = "subscribeDoc" /\ shareDoc.subscribed) =>
          /\ shareDoc' = shareDoc /\ did'.call = ""
          /\ Reports("", -1) /\ Len(stack') = 1
          /\ subscribedDocs' = subscribedDocs + 1
          /\ DocId \in collections']_vars

(* C15 witness: a second subscribeDoc, made after the subscription of the first
   has succeeded, has just called back without a call in flight *)
C15_Witness ==
    /\ did.op = "subscribeDoc" /\ did.call = ""
    /\ shareDoc.subscribed /\ shareDoc.inflight = <<>>
    /\ subscribedDocs = 2
    /\ stack # <<>> /\ Top.kind = "callback" /\ Top.err = ""

(* What subscribeDoc and the release of a subscription do to the count and to
   the sync object *)
SubscribeCounted ==
    /\ (Idle /\ did'.op = "subscribeDoc") =>
          /\ subscribedDocs' = subscribedDocs + 1
          /\ options.fetchOnly =>
                /\ did'.call = "fetch"
                /\ shareDoc'.inflight # <<>>
                /\ Last(shareDoc'.inflight).op = "fetch"
                /\ Len(shareDoc'.inflight) = Len(shareDoc.inflight) + 1
    /\ (Idle /\ did'.op = "finishUnsubscribeDoc") =>
          /\ subscribedDocs' = IF subscribedDocs > 0 THEN subscribedDocs - 1 ELSE 0
          /\ (options.fetchOnly /\ subscribedDocs' = 0) =>
                /\ did'.call = "" /\ did'.unload # ""
                /\ shareDoc'.inflight = shareDoc.inflight
                /\ Reports("", 0)

(* C16: in fetchOnly mode the sync object is never asked to subscribe or to
   unsubscribe: subscribeDoc asks it to fetch, and an unsubscribeDoc whose count
   reaches 0 goes straight to the eviction attempt and calls back with 0. In
   either mode subscribeDoc adds one to the subscribe count and the release
   takes one off. *)
C16_FetchOnly ==
    /\ [](options.fetchOnly =>
            /\ ~InFlight("subscribe") /\ ~InFlight("unsubscribe")
            /\ did.call \notin {"subscribe", "unsubscribe"}
            /\ ~shareDoc.subscribed)
    /\ [][SubscribeCounted]_vars

(* C16 witness: in fetchOnly mode a subscribeDoc has fetched, and the
   unsubscribeDoc that took the count to 0 has evicted the document without a
   call on the sync object *)
C16_Witness ==
    /\ options.fetchOnly
    /\ calls = <<"subscribeDoc", "unsubscribeDoc">>
    /\ did.op = "finishUnsubscribeDoc" /\ did.call = "" /\ did.unload = "evicted"
    /\ subscribedDocs = 0 /\ DocId \notin collections

(* C17: the fetch count and the subscribe count are never negative, in whatever
   order operations, timers and completions interleave; a release that finds
   its count at zero leaves it at zero, takes it for a decrement to zero and
   calls back with 0 or with the unsubscription still to come. *)
C17_CountsNonNegative ==
    /\ [](fetchedDocs >= 0 /\ subscribedDocs >= 0)
    /\ [][(Finishes /\ did'.had = 0) =>
             /\ Remaining = 0
             /\ (did'.call = "unsubscribe") # (did'.unload # "")
             /\ did'.unload # "" => Reports("", 0)]_vars

(* C17 witness: two unfetchDoc calls armed their timers while the count was 1;
   the second timer has found the count at zero and left it there *)
C17_Witness ==
    /\ calls = <<"fetchDoc", "unfetchDoc", "unfetchDoc">>
    /\ did.op = "finishUnfetchDoc" /\ did.had = 0
    /\ fetchedDocs = 0 /\ timers = <<>>

(* The delay the options of the model ask for: the unloadDelay supplied, or
   else nothing on a server and the default elsewhere *)
ConfiguredDelay ==
    IF options.option # 0 THEN options.option
    ELSE IF options.isServer THEN 0 ELSE DefaultUnloadDelay

(* unfetchDoc or unsubscribeDoc is called while its count is not zero *)
Releases ==
    /\ Idle /\ Len(calls') = Len(calls) + 1
    /\ \/ Last(calls') = "unfetchDoc" /\ fetchedDocs > 0
       \/ Last(calls') = "unsubscribeDoc" /\ subscribedDocs > 0

(* C18: unfetchDoc and unsubscribeDoc put off their decrement by the delay the
   options ask for: they run it at once when that delay is 0, and arm a timer
   of that delay otherwise. *)
C18_ConfiguredDelay ==
    [][Releases =>
          IF ConfiguredDelay = 0
          THEN timers' = timers /\ Finishes
          ELSE /\ Len(timers') = Len(timers) + 1
               /\ Last(timers').delay = ConfiguredDelay]_vars

(* The delay the code applies: nothing when an unloadDelay is supplied or on a
   server, the default otherwise *)
C18_AppliedDelay ==
    [][Releases =>
          IF options.option # 0 \/ options.isServer
          THEN timers' = timers /\ Finishes
          ELSE /\ Len(timers') = Len(timers) + 1
               /\ Last(timers').delay = DefaultUnloadDelay]_vars

(* The context of a model made by pass(): every key of the parent's context or
   of the object, with the object's value where both have the key unless
   invert was true, the parent's value then *)
MergedContext(m) ==
    LET ctx == passedObjects[m.pass]
    IN  /\ DOMAIN ctx = DOMAIN m.before \cup DOMAIN m.object
        /\ \A k \in DOMAIN ctx :
              ctx[k] = IF k \in DOMAIN m.object /\ k \in DOMAIN m.before
                       THEN IF m.invert = "true" THEN m.before[k] ELSE m.object[k]
                       ELSE IF k \in DOMAIN m.object THEN m.object[k] ELSE m.before[k]

(* C19: pass(object, invert) returns a new model whose passed context is the
   merge of the parent's context and the object: on a key of both, the
   object's value unless invert is true and the parent's value if it is; keys
   of one side only are kept. The context is an object of the new model's own,
   and no existing context, the parent's included, is ever changed. *)
C19_PassMerges ==
    /\ [](\A i \in 2..Len(childModels) :
            /\ MergedContext(childModels[i])
            /\ \A j \in 1..(i - 1) : childModels[j].pass # childModels[i].pass)
    /\ [][/\ \A i \in DOMAIN passedObjects : passedObjects'[i] = passedObjects[i]
          /\ \A i \in DOMAIN childModels : childModels'[i] = childModels[i]]_vars

(* C19 witness: a model made with invert true, from a parent whose context
   disagrees with the object on key a and lacks the object's key b, has the
   parent's value for a and the object's for b *)
C19_Witness ==
    \E i \in DOMAIN childModels :
        LET m == childModels[i]
        IN  /\ m.invert = "true" /\ m.parent > 1
            /\ "a" \in DOMAIN m.object /\ "a" \in DOMAIN m.before
            /\ m.object["a"] # m.before["a"]
            /\ "b" \in DOMAIN m.object /\ "b" \notin DOMAIN m.before
            /\ passedObjects[m.pass] = [a |-> m.before["a"], b |-> m.object["b"]]
            /\ passedObjects[childModels[m.parent].pass] = m.before

(* on() is called for a mutation event in this step, with this pattern *)
Registers == Idle /\ did'.op = "on" /\ did'.arg[1] \in TreeTypes

Asked == did'.arg[2]

(* The pattern has a segment ** that another segment follows *)
TailNotLast(pattern) ==
    \E i \in DOMAIN pattern :
        /\ CharAt(pattern, i) = "*" /\ CharAt(pattern, i + 1) = "*"
        /\ CharAt(pattern, i - 1) \in {"", "."}
        /\ CharAt(pattern, i + 2) = "."

(* The registration fails: an Error is thrown, and the trees and the index of
   listeners by eventContext stay as they are *)
Rejected ==
    /\ exc' = "patternError" /\ Len(thrown') = Len(thrown) + 1
    /\ UNCHANGED <<added, eventContextListeners, mutationListeners>>

(* C20, as stated: the registration of a mutation listener whose pattern has a
   ** before its last segment, or whose pattern is empty, fails with an error
   and adds no listener to a tree or to the index by eventContext. *)
C20_MalformedRejected ==
    [][(Registers /\ (Asked = <<>> \/ TailNotLast(Asked))) => Rejected]_vars

(* C20, amended: a pattern with a ** before its last segment is rejected in
   this way; an empty pattern is not: it adds a listener for ** to the tree of
   the type, and to the index if the model has an eventContext, and throws
   nothing. *)
C20_MisplacedRejected ==
    [][/\ (Registers /\ TailNotLast(Asked)) => Rejected
       /\ (Registers /\ Asked = <<>>) =>
             /\ exc' = "none" /\ thrown' = thrown
             /\ Len(added') = Len(added) + 1
             /\ Last(added').patternSegments = <<TailWildcard>>
             /\ Last(added').type = did'.arg[1]
             /\ Last(mutationListeners'[did'.arg[1]]) = Len(ListenerDefs) + Len(added')
             /\ did'.arg[3] # 0 =>
                   /\ did'.arg[3] \in DOMAIN eventContextListeners'
                   /\ Last(eventContextListeners'[did'.arg[3]])
                         = Last(mutationListeners'[did'.arg[1]])]_vars

(* C20 witness: after a listener was added under an eventContext, the
   registration of a.**.b under the same eventContext has just thrown, and has
   added nothing *)
C20_Witness ==
    /\ did.op = "on" /\ did.arg[1] = "change" /\ did.arg[3] = 1
    /\ did.arg[2] = <<"a", ".", "*", "*", ".", "b">>
    /\ exc = "patternError"
    /\ Len(added) = 1 /\ DOMAIN eventContextListeners = {1}
    /\ Len(eventContextListeners[1]) = 1

(* The other case: an empty pattern has added a listener for ** *)
C20_WitnessEmpty ==
    /\ did.op = "on" /\ did.arg[1] = "change" /\ did.arg[2] = <<>>
    /\ exc = "none" /\ added # <<>>
    /\ Last(added).patternSegments = <<TailWildcard>>

----------------------------------------------------------------------------
(* C21: when a listener registered with a pattern is invoked for a path, its
   captures are the path segments at the places of the pattern's * segments,
   in order, followed, if the pattern ends in **, by the rest of the path from
   the place of the ** joined with '.', the empty string if there is none.
   a.* at a.x captures x; a.** at a, a.x and a.x.y captures "", x and x.y; the
   legacy a** does as a.** does. *)

(* The path segments at the places of the pattern's * segments *)
Starred(patternSegments, segments) ==
    LET places == SelectSeq([i \in DOMAIN patternSegments |-> i],
                            LAMBDA i : patternSegments[i] = <<"*">>)
    IN  [i \in DOMAIN places |-> segments[places[i]]]

(* The rest of a path from a place on, joined with '.' *)
RECURSIVE Rest(_, _)
Rest(segments, place) ==
    IF place > Len(segments) THEN <<>>
    ELSE IF place = Len(segments) THEN segments[place]
    ELSE segments[place] \o <<".">> \o Rest(segments, place + 1)

ExpectedCaptures(patternSegments, segments) ==
    Starred(patternSegments, segments)
    \o (IF patternSegments[Len(patternSegments)] = <<"*", "*">>
        THEN <<Rest(segments, Len(patternSegments))>>
        ELSE <<>>)

(* The invocations in progress of listeners registered with a pattern *)
PatternCalls ==
    {k \in DOMAIN stack : /\ stack[k].kind = "listener"
                          /\ Listener(stack[k].listener).asked # <<>>}

C21_Captures ==
    \A k \in PatternCalls :
        LET listener == Listener(stack[k].listener)
            asked == listener.asked
            path == stack[k].segments
            captures == stack[k].captures
        IN  /\ captures = ExpectedCaptures(listener.patternSegments, path)
            /\ (asked = <<"a", ".", "*">> /\ path = <<(<<"a">>), (<<"x">>)>>)
                  => captures = <<(<<"x">>)>>
            /\ asked \in {<<"a", ".", "*", "*">>, <<"a", "*", "*">>}
                  => /\ listener.patternSegments = <<(<<"a">>), (<<"*", "*">>)>>
                     /\ path = <<(<<"a">>)>> => captures = <<(<<>>)>>
                     /\ path = <<(<<"a">>), (<<"x">>)>> => captures = <<(<<"x">>)>>
                     /\ path = <<(<<"a">>), (<<"x">>), (<<"y">>)>>
                           => captures = <<(<<"x", ".", "y">>)>>

(* C21 witness: a listener registered with the legacy pattern a** is being
   invoked for a.x.y, and captures x.y *)
C21_Witness ==
    \E k \in PatternCalls :
        /\ Listener(stack[k].listener).asked = <<"a", "*", "*">>
        /\ stack[k].segments = <<(<<"a">>), (<<"x">>), (<<"y">>)>>
        /\ stack[k].captures = <<(<<"x", ".", "y">>)>>

----------------------------------------------------------------------------
(* C22: the callback of a listener registered with once() is invoked at most
   once, whatever matching events are emitted and by whom: also by other
   listeners, and by listeners of an immediate type while a dispatch list that
   holds the once-listener is being gone through; and the listener is out of
   its tree before its callback runs. *)

(* The listeners added so far that once() registered *)
OnceListeners ==
    {Len(ListenerDefs) + i : i \in {j \in DOMAIN added : added[j].once}}

Invocations(l) == {k \in DOMAIN log : log[k].kind = "call" /\ log[k].listener = l}

Registered_In(l) == \E t \in TreeTypes : l \in SeqToSet(mutationListeners[t])

RemovedBeforeCallback ==
    \A k \in DOMAIN stack :
        (stack[k].kind = "listener" /\ stack[k].listener \in OnceListeners)
        => ~Registered_In(stack[k].listener)

C22_OnceAtMostOnce ==
    /\ \A l \in OnceListeners : Cardinality(Invocations(l)) <= 1
    /\ RemovedBeforeCallback

(* What the code keeps of C22: a once-listener of an event's own type or of
   'all' is invoked at most once, and every once-listener is out of its tree
   before its callback runs *)
C22_QueuedOnceAtMostOnce ==
    /\ \A l \in OnceListeners :
          Listener(l).type \in QueuedTypes => Cardinality(Invocations(l)) <= 1
    /\ RemovedBeforeCallback

(* A once-listener of the own type whose callback is running for the second
   matching event: it was invoked once *)
C22_Witness ==
    \E l \in OnceListeners :
        /\ Listener(l).type = "change" /\ Cardinality(Invocations(l)) = 1
        /\ created = 2 /\ stack = <<>>
        /\ \A e \in DOMAIN events : Dispatches(e, "change") # {}

----------------------------------------------------------------------------
(* C23: removeContextListeners() on a scope with eventContext X takes every
   listener registered through a scope with eventContext X out of its tree
   and deletes the entry of X in the index, so that no later emit invokes any
   of them; listeners registered with another eventContext or with none stay
   registered. With no eventContext, or with one that has no listeners, it
   does nothing. *)

(* A call of removeContextListeners, and the eventContext of its scope *)
RemovesContext == removed' # removed

RemovedContext == Last(removed').eventContext

(* The listeners of the trees registered with an eventContext *)
InContext(trees, eventContext) ==
    {l \in UNION {SeqToSet(trees[t]) : t \in TreeTypes} :
        Listener(l).eventContext = eventContext}

HasListeners(eventContext) == InContext(mutationListeners, eventContext) # {}

(* The listeners the index holds for an eventContext: none when it has no entry *)
Indexed(map, eventContext) ==
    IF eventContext \in DOMAIN map THEN map[eventContext] ELSE <<>>

NothingRemoved ==
    /\ UNCHANGED mutationListeners
    /\ \A id \in ContextIds :
          Indexed(eventContextListeners', id) = Indexed(eventContextListeners, id)

ContextRemoved ==
    /\ InContext(mutationListeners', RemovedContext) = {}
    /\ RemovedContext \notin DOMAIN eventContextListeners'
    /\ SeqToSet(Last(removed').listeners) = InContext(mutationListeners, RemovedContext)
    /\ \A t \in TreeTypes :
          mutationListeners'[t]
             = SelectSeq(mutationListeners[t],
                         LAMBDA l : Listener(l).eventContext # RemovedContext)
    /\ \A id \in DOMAIN eventContextListeners \ {RemovedContext} :
          /\ id \in DOMAIN eventContextListeners'
          /\ eventContextListeners'[id] = eventContextListeners[id]

(* No listener that a call removed is being invoked for an event emitted after
   the call *)
NotInvokedLater ==
    \A r \in DOMAIN removed, k \in DOMAIN stack :
        (stack[k].kind = "listener" /\ stack[k].listener \in SeqToSet(removed[r].listeners))
        => stack[k].event.id <= removed[r].created

C23_RemoveContextListeners ==
    /\ [][RemovesContext =>
             IF RemovedContext # 0 /\ HasListeners(RemovedContext)
             THEN ContextRemoved
             ELSE NothingRemoved]_vars
    /\ []NotInvokedLater

(* C23 witness: the listeners of context 1 were removed while a listener of
   context 2 stayed, and the one that stayed is being invoked for an event
   emitted after the removal *)
C23_Witness ==
    /\ removed # <<>> /\ removed[1].eventContext = 1 /\ removed[1].listeners # <<>>
    /\ \E k \in DOMAIN stack :
          /\ stack[k].kind = "listener"
          /\ Listener(stack[k].listener).eventContext = 2
          /\ stack[k].event.id > removed[1].created

(* The other case: a call with no eventContext, with listeners registered *)
C23_WitnessNone ==
    /\ removed # <<>> /\ removed[1].eventContext = 0 /\ removed[1].listeners = <<>>
    /\ \E t \in TreeTypes : mutationListeners[t] # <<>>

----------------------------------------------------------------------------
(* C24: for every event dispatched in the queued phase, all matching listeners
   of the event's own type are invoked before any matching listener of 'all'
   is invoked for that event; and listeners of 'all' are never invoked in the
   immediate phase. *)

(* The places of the log where a listener of 'all' is invoked for an event *)
AllCalls(e) ==
    {k \in DOMAIN log : /\ log[k].kind = "call" /\ log[k].event = e
                        /\ Listener(log[k].listener).type = "all"}

(* At every invocation of a listener of 'all', which is the latest entry of
   the log in the state it leads to, the matching listeners of the event's own
   type have been invoked for the event *)
OwnBeforeAll ==
    (/\ log # <<>> /\ Last(log).kind = "call"
     /\ Listener(Last(log).listener).type = "all")
    => LET e == Last(log).event
       IN  \A l \in Matching(events[e].type, e) : Calls(e, events[e].type, l) # {}

(* A listener of 'all' runs only under the dispatch of line 101 or 119 *)
AllOnlyQueued ==
    \A k \in DOMAIN stack :
        (stack[k].kind = "listener" /\ Listener(stack[k].listener).type = "all")
        => /\ k > 1 /\ stack[k - 1].kind = "emit"
           /\ stack[k - 1].pc \in {"all", "drainAll"}
           /\ stack[k - 1].event = stack[k].event

C24_OwnBeforeAll == OwnBeforeAll /\ AllOnlyQueued

(* C24 witness: an event that went through the queue has had its listener of
   'all' invoked, after two matching listeners of its own type *)
C24_Witness ==
    \E e \in DOMAIN events :
        /\ events[e].inFlight
        /\ AllCalls(e) # {}
        /\ Cardinality(Matching(events[e].type, e)) = 2

----------------------------------------------------------------------------
(* C25: eviction is idempotent. During one residency of a document at most
   one Unload event is emitted for it and its handle is destroyed at most
   once, however often _maybeUnloadDoc runs (several timers reaching 0,
   several whenNothingPending callbacks); and _maybeUnloadDoc run for a
   document that is no longer in the local model does nothing. *)

Destroys == shareDoc'.destroyed /\ ~shareDoc.destroyed

(* The operations started so far that make the document resident *)
Loads == Cardinality({i \in DOMAIN calls : calls[i] \in {"fetchDoc", "subscribeDoc"}})

(* An Unload or a destroy() ends the residency it happens in, and does both *)
EndsResidency ==
    /\ DocId \in collections /\ ~shareDoc.destroyed
    /\ DocId \notin collections' /\ shareDoc'.destroyed
    /\ created' = created + 1

(* _maybeUnloadDoc for a document that is not there: nothing is removed,
   destroyed or emitted, and no callback is left with the sync object *)
AbsentNoOp ==
    (TriedUnload /\ DocId \notin collections)
    => /\ did'.unload = "absent"
       /\ UNCHANGED <<collections, created, events>>
       /\ shareDoc'.destroyed = shareDoc.destroyed
       /\ shareDoc'.waiting = shareDoc.waiting
       /\ shareDoc'.orphaned <= shareDoc.orphaned

C25_EvictionOnce ==
    /\ [][((Unloads \/ Destroys) => EndsResidency) /\ AbsentNoOp]_vars
    /\ [](created <= Loads)

(* C25 witness: after the document was evicted, with its one Unload event,
   _maybeUnloadDoc has run again for it from a second timer and found it gone *)
C25_Witness ==
    /\ did.op = "finishUnsubscribeDoc" /\ did.unload = "absent"
    /\ created = 1 /\ DocId \notin collections /\ shareDoc.destroyed

----------------------------------------------------------------------------
(* C26: on eviction the document is removed from the local model and its
   handle is destroyed before any listener of the Unload event runs, and the
   event is emitted at [collection, id] with the value of the document read
   before the removal as its previous. *)

(* The invocations in progress of listeners for an Unload event *)
UnloadCalls ==
    {k \in DOMAIN stack : stack[k].kind = "listener" /\ stack[k].event.type = "unload"}

RemovedBeforeListeners ==
    \A k \in UnloadCalls :
        DocId \notin collections /\ shareDoc.destroyed /\ stack[k].segments = DocPath

(* The step that makes the UnloadEvent: its previous is the value the document
   had before the step, the document is gone after it, and no listener has
   run yet *)
CarriesPrevious ==
    Unloads => /\ did'.arg = <<shareDoc.data>>
               /\ DocId \in collections /\ DocId \notin collections'
               /\ shareDoc'.destroyed /\ shareDoc'.data = "undefined"
               /\ stack'[Len(stack')].kind = "emit" /\ stack'[Len(stack')].pc = "start"

C26_RemovedBeforeUnload ==
    /\ []RemovedBeforeListeners
    /\ [][CarriesPrevious]_vars

(* C26 witness: a listener of the Unload event of a document whose snapshot had
   been fetched is running: the event carries the snapshot, and the document is
   gone *)
C26_Witness ==
    /\ UnloadCalls # {}
    /\ did.unload = "evicted" /\ did.arg = <<"snapshot">>
    /\ DocId \notin collections /\ shareDoc.data = "undefined"

----------------------------------------------------------------------------
(* C27: unfetchDoc for a document whose fetch count is 0, and unsubscribeDoc
   for one whose subscribe count is 0, have no effect: the counts stay as they
   are, no timer is armed, nothing is asked of the sync object, no eviction is
   attempted, and the callback is called at once with no error and no count. *)

ReleasesUnheld ==
    /\ Idle /\ calls' # calls
    /\ \/ Last(calls') = "unfetchDoc" /\ fetchedDocs = 0
       \/ Last(calls') = "unsubscribeDoc" /\ subscribedDocs = 0

C27_UnheldNoEffect ==
    [][ReleasesUnheld =>
          /\ UNCHANGED <<fetchedDocs, subscribedDocs, timers, shareDoc, collections,
                         queries, created, events>>
          /\ did'.call = "" /\ did'.unload = "" /\ did'.had = -1
          /\ Len(stack') = 1 /\ Reports("", -1)]_vars

(* C27 witness: unfetchDoc of a document that is resident through a subscribe
   alone has just called its callback *)
C27_Witness ==
    /\ did.op = "unfetchDoc" /\ calls # <<>> /\ Last(calls) = "unfetchDoc"
    /\ Len(stack) = 1 /\ Top.kind = "callback" /\ Top.err = "" /\ Top.count = -1
    /\ fetchedDocs = 0 /\ subscribedDocs = 1 /\ DocId \in collections

----------------------------------------------------------------------------
(* C28: all observers see one order. For any two events both dispatched in
   the queued phase, every listener of an own type or of 'all' that is invoked
   for both is invoked for them in the same relative order, also when events
   are emitted from listeners. *)

(* The invocations of a listener for an event in the queued phase, among
   these entries of the log *)
QueuedCallsIn(entries, l, e) ==
    {k \in entries : log[k].listener = l /\ log[k].event = e}

QueuedCalls(l, e) ==
    QueuedCallsIn({k \in DOMAIN log : log[k].kind = "call" /\ log[k].type \in QueuedTypes},
                  l, e)

(* The listener of the k-th entry of the log is invoked for its event after
   any event it was invoked for earlier: every other listener invoked for both
   has seen the two in that order *)
SameOrder(k) ==
    LET l == log[k].listener
        e == log[k].event
        entries == {j \in 1..k : log[j].kind = "call" /\ log[j].type \in QueuedTypes}
        seen == {log[j].event : j \in {i \in entries : log[i].listener = l}} \ {e}
    IN  \A e1 \in seen : \A m \in ListenerIds \ {l} :
            LET first == QueuedCallsIn(entries, m, e1)
                second == QueuedCallsIn(entries, m, e)
            IN  (first # {} /\ second # {})
                => \A i \in first, j \in second : i < j

(* Every invocation is the latest entry of the log in the state it leads to *)
C28_OneOrder ==
    (/\ log # <<>> /\ Last(log).kind = "call" /\ Last(log).type \in QueuedTypes)
    => SameOrder(Len(log))

(* C28 witness: two listeners of 'change' have both been invoked for an event
   and for an event emitted by one of them while it ran *)
C28_Witness ==
    \E e1, e2 \in DOMAIN events :
        /\ events[e2].parent = e1 /\ events[e2].parentType = "change"
        /\ \A l \in {2, 3} : QueuedCalls(l, e1) # {} /\ QueuedCalls(l, e2) # {}

----------------------------------------------------------------------------
(* C29: when an exception leaves the emit call that set the in-flight flag (a
   listener of the own type or of 'all' throws, or the cycle error is thrown),
   the flag is left set and the events still queued stay queued: every later
   emit runs only its immediate listeners and appends to the queue, and no
   listener of an own type or of 'all' is ever invoked again. *)

(* An activation of _emitMutation past line 99 *)
SetTheFlag(f) == f.kind = "emit" /\ f.pc \notin {"start", "immediate"}

(* An exception leaves the activation that set the flag *)
LeavesFlagSetter ==
    /\ stack # <<>> /\ SetTheFlag(Top) /\ Len(stack') < Len(stack) /\ exc' # "none"

(* The flag is set and no activation is left that would clear it *)
Stuck == emittingMutation /\ \A k \in DOMAIN stack : ~SetTheFlag(stack[k])

StaysStuck ==
    /\ Stuck'
    /\ Len(mutationEventQueue') >= Len(mutationEventQueue)
    /\ SubSeq(mutationEventQueue', 1, Len(mutationEventQueue)) = mutationEventQueue
    /\ log' # log => Last(log').type \notin QueuedTypes
    /\ returned' # returned =>
          /\ Len(mutationEventQueue') = Len(mutationEventQueue) + 1
          /\ returned' = returned \cup {Last(mutationEventQueue').event.id}
          /\ \A l \in Matching(ImmediateTypeOf(Last(mutationEventQueue').event.id),
                                Last(mutationEventQueue').event.id) :
                Calls(Last(mutationEventQueue').event.id,
                      ImmediateTypeOf(Last(mutationEventQueue').event.id), l) # {}

====
